---- MODULE Spec2Model ----
(***************************************************************************)
(* A model of package seekinghttp: SeekingHTTP implements io.ReadSeeker    *)
(* and io.ReaderAt over HTTP GETs with Range headers, keeping the body of  *)
(* the last GET as a one-slot cache (fields last, lastOffset).             *)
(*                                                                         *)
(* The remote resource is a byte sequence that does not change.  The      *)
(* transport (HttpClient.Do) is the environment: for each request it       *)
(* either fails, or answers with a status and, for 200/206, the bytes of   *)
(* the requested range that exist (as the test transport does); reading    *)
(* the body may fail after some bytes and closing it may fail.             *)
(*                                                                         *)
(* Every call is one action.  The variable ret is an observation: the     *)
(* last call's arguments, what it returned and what it did on the wire.    *)
(***************************************************************************)
EXTENDS Integers, Sequences, FiniteSets

\* ------------------------------------------------------------- bounds
\* Longest resource, in bytes.
MaxSize == 2
\* Longest caller buffer.
MaxLen == 2
\* Largest offset or cursor a caller passes.
MaxOff == 2
\* Chunked sequential reading: longest resource, largest chunk, and how many
\* Reads are made after the end has been reached.
MaxTotal == 12
MaxChunk == 6
ExtraReads == 2
\* Counted ReadAt sequences: the longest sequence.
MaxCalls == 4
\* Two concurrent callers: the length of their buffers and the distance of
\* their offsets and seeks; the resource is twice as long.
MaxRace == 1

\* ---------------------------------------------------- program constants
\* wanted := 1024 * 1024
MinFetch == 1048576
StatusOK == 200
StatusPartialContent == 206
\* Any status other than 200 and 206.
StatusNotFound == 404
\* io.SeekStart, io.SeekCurrent, io.SeekEnd
SeekStart == 0
SeekCurrent == 1
SeekEnd == 2

VARIABLES
    resource,    \* the remote resource's bytes
    URL,         \* SeekingHTTP.URL: "good" parses, "bad" does not
    url,         \* SeekingHTTP.url: "nil" until URL has been parsed
    offset,      \* SeekingHTTP.offset, the cursor
    last,        \* SeekingHTTP.last: [present, buf]; present = FALSE is nil
    lastOffset,  \* SeekingHTTP.lastOffset
    ret,         \* the last call: arguments, results, requests issued
    chunk,       \* chunked sequential reading: the chunk size (0: not used)
    out,         \* chunked sequential reading: the bytes returned so far
    numReq,      \* MockHTTPClient.numReq: the requests the counting transport got
    tally,       \* counted ReadAt sequences: [calls, misses] made so far
    race         \* two concurrent callers: their calls, positions and locals

vars == <<resource, URL, url, offset, last, lastOffset, ret, chunk, out, numReq, tally,
          race>>

Min(a, b) == IF a < b THEN a ELSE b
Max(a, b) == IF a < b THEN b ELSE a

\* s[from:to] of Go: the bytes at 0-based positions from .. to-1.
Slice(s, from, to) == SubSeq(s, from + 1, to)

\* The resources: n bytes, the byte at position i being i (so that bytes
\* taken from a wrong position are seen to be wrong).
ResourceOf(n) == [i \in 1..n |-> i - 1]
Resources == {ResourceOf(n) : n \in 0..MaxSize}

Offsets == (0 - 1)..MaxOff
Lengths == 0..MaxLen
Whences == {SeekStart, SeekCurrent, SeekEnd, 3}

\* The reader as one value, the receiver s of the methods.
Self == [url |-> url, offset |-> offset, last |-> last, lastOffset |-> lastOffset]

NilBuffer == [present |-> FALSE, buf |-> <<>>]

\* New(url): offset 0, every other field its zero value.
New == [url |-> "nil", offset |-> 0, last |-> NilBuffer, lastOffset |-> 0]

\* ------------------------------------------------------ the transport
\* What HttpClient.Do and the response it returns do for one request.  For a
\* GET: Do fails, or answers with a status and a body whose Read fails after
\* `delivered` bytes (bodyErr) or reaches the end, and whose Close may fail.
\* For a HEAD: Do fails, or reports contentLength (< 0: not reported).
\* sends says which body a GET is answered with: "range", the bytes the Range
\* header names; "whole", the resource from its first byte whatever the Range
\* (the transport of the ReadAt test that ignores the header); "mock", what the
\* transport of the counting tests does with the header.
Outcome(doErr, status, bodyErr, delivered, closeErr, contentLength) ==
    [doErr |-> doErr, status |-> status, bodyErr |-> bodyErr, delivered |-> delivered,
     closeErr |-> closeErr, contentLength |-> contentLength, sends |-> "range"]

\* No request was sent.
NoOutcome == Outcome(FALSE, 0, FALSE, 0, FALSE, 0)

GetOutcomes ==
    {Outcome(TRUE, 0, FALSE, 0, FALSE, 0)}
    \cup {Outcome(FALSE, st, FALSE, 0, FALSE, 0) :
            st \in {StatusOK, StatusPartialContent, StatusNotFound}}
    \cup {Outcome(FALSE, st, FALSE, 0, TRUE, 0) : st \in {StatusOK, StatusNotFound}}
    \cup {Outcome(FALSE, StatusPartialContent, TRUE, d, FALSE, 0) : d \in 0..Len(resource)}

\* A transport that does not fail, answers 200 and honours the Range header.
GetFine == Outcome(FALSE, StatusOK, FALSE, 0, FALSE, 0)

\* The transports of the tests: both answer 200 without error.
TestOutcomes == {[GetFine EXCEPT !.sends = b] : b \in {"whole", "mock"}}

HeadOutcomes ==
    {Outcome(TRUE, 0, FALSE, 0, FALSE, 0)}
    \cup {Outcome(FALSE, StatusOK, FALSE, 0, FALSE, n) : n \in {0 - 1, Len(resource)}}

\* The body of a 200/206 answer to Range: bytes=from-to (to inclusive): the
\* bytes of the range that exist; empty when the range starts at or past the end.
RangeBody(rng) ==
    IF rng.from >= Len(resource) THEN <<>>
    ELSE Slice(resource, rng.from, Min(rng.to + 1, Len(resource)))

\* The Range values the transport of the counting tests knows, as <<from, to>>.
KnownRanges == {<<0, 99>>, <<30, 329>>, <<10, 109>>, <<20, 119>>}

\* Do of that transport over the string str: it panics on a Range it does not
\* know; otherwise end is clamped to len(str), start to end, and the body is
\* str[start:end].
MockDo(str, rng) ==
    IF <<rng.from, rng.to>> \notin KnownRanges
    THEN [panics |-> TRUE, body |-> <<>>]
    ELSE LET end == IF rng.to > Len(str) THEN Len(str) ELSE rng.to
             start == IF rng.from > end THEN end ELSE rng.from
         IN  [panics |-> FALSE, body |-> Slice(str, start, end)]

\* What Do answers a GET with Range rng when it returns no error.
Response(rng, t) ==
    IF t.sends = "mock" THEN MockDo(resource, rng)
    ELSE [panics |-> FALSE, body |-> IF t.sends = "whole" THEN resource ELSE RangeBody(rng)]

\* ---------------------------------------------------------- the reader
\* newReq: parses URL on first use; the request is a GET.
newReq(s) ==
    IF s.url = "nil"
    THEN IF URL = "good"
         THEN [err |-> "nil", s |-> [s EXCEPT !.url = "parsed"], method |-> "GET"]
         ELSE [err |-> "parse", s |-> s, method |-> "none"]
    ELSE [err |-> "nil", s |-> s, method |-> "GET"]

\* fmtRange: "bytes=from-to", to inclusive.
fmtRange_OffByOne(from, l) ==
    [unit |-> "bytes", from |-> from, to |-> from + l]

fmtRange(from, l) ==
    [unit |-> "bytes", from |-> from, to |-> IF l = 0 THEN from ELSE from + (l - 1)]

NoRange == [unit |-> "none", from |-> 0, to |-> 0]

\* What a method returns, with what it did: the reader afterwards, count and
\* error, the bytes copied into buf, GETs issued, the Range sent, whether a
\* response body was obtained and closed, and what the transport did.
Result(s, n, err, data, gets, rng, body, t) ==
    [s |-> s, n |-> n, err |-> err, data |-> data, gets |-> gets, heads |-> 0,
     range |-> rng, body |-> body, t |-> t]

\* A method that returns without sending a request.
Local(s, n, err, data) == Result(s, n, err, data, 0, NoRange, "none", NoOutcome)

\* ReadAt's status test: 200 and 206 are read, any other status is io.EOF.
StatusAccepted_Only206(st) == st = StatusPartialContent

StatusAccepted(st) == st = StatusOK \/ st = StatusPartialContent

\* The error ReadAt returns after the body was read to its end: ReadFrom
\* returns nil at the end of the body, and the deferred Close replaces a nil
\* error by its own.
SuccessErr_EOF(t) == IF t.closeErr THEN "close" ELSE "EOF"

SuccessErr(t) == IF t.closeErr THEN "close" ELSE "nil"

\* ReadAt from "if s.last == nil" on: the cache is reset, the request sent,
\* the body read into the cache and copied out.  A panic of Do is not
\* recovered: it ends the program.
Fetch_LeaksBody(s, len, off, rng, t) ==
    LET s1 == [s EXCEPT !.last = [present |-> TRUE, buf |-> <<>>]]
        body == Response(rng, t).body
    IN  IF t.doErr
        THEN Result(s1, 0, "transport", <<>>, 1, rng, "none", t)
        ELSE IF Response(rng, t).panics
        THEN Result(s1, 0, "panic", <<>>, 1, rng, "none", t)
        ELSE IF StatusAccepted(t.status)
        THEN IF t.bodyErr
             THEN Result([s1 EXCEPT !.last.buf = Slice(body, 0, Min(t.delivered, Len(body)))],
                         0, "body", <<>>, 1, rng, "closed", t)
             ELSE LET s2 == [s1 EXCEPT !.last.buf = body, !.lastOffset = off]
                      n == Min(Len(body), len)
                  IN  Result(s2, n, SuccessErr(t), Slice(body, 0, n), 1, rng, "closed", t)
        ELSE Result(s1, 0, "EOF", <<>>, 1, rng, "open", t)

\* A fetch that reports end-of-data when the body is shorter than the buffer.
Fetch_ShortIsEOF(s, len, off, rng, t) ==
    LET s1 == [s EXCEPT !.last = [present |-> TRUE, buf |-> <<>>]]
        body == Response(rng, t).body
    IN  IF t.doErr
        THEN Result(s1, 0, "transport", <<>>, 1, rng, "none", t)
        ELSE IF Response(rng, t).panics
        THEN Result(s1, 0, "panic", <<>>, 1, rng, "none", t)
        ELSE IF StatusAccepted(t.status)
        THEN IF t.bodyErr
             THEN Result([s1 EXCEPT !.last.buf = Slice(body, 0, Min(t.delivered, Len(body)))],
                         0, "body", <<>>, 1, rng, "closed", t)
             ELSE LET s2 == [s1 EXCEPT !.last.buf = body, !.lastOffset = off]
                      n == Min(Len(body), len)
                  IN  Result(s2, n, IF n < len THEN "EOF" ELSE SuccessErr(t),
                             Slice(body, 0, n), 1, rng, "closed", t)
        ELSE Result(s1, 0, "EOF", <<>>, 1, rng, "closed", t)

Fetch(s, len, off, rng, t) ==
    LET s1 == [s EXCEPT !.last = [present |-> TRUE, buf |-> <<>>]]
        body == Response(rng, t).body
    IN  IF t.doErr
        THEN Result(s1, 0, "transport", <<>>, 1, rng, "none", t)
        ELSE IF Response(rng, t).panics
        THEN Result(s1, 0, "panic", <<>>, 1, rng, "none", t)
        ELSE IF StatusAccepted(t.status)
        THEN IF t.bodyErr
             THEN \* ReadFrom keeps the bytes read before the error
                  Result([s1 EXCEPT !.last.buf = Slice(body, 0, Min(t.delivered, Len(body)))],
                         0, "body", <<>>, 1, rng, "closed", t)
             ELSE LET s2 == [s1 EXCEPT !.last.buf = body, !.lastOffset = off]
                      n == Min(Len(body), len)
                  IN  Result(s2, n, SuccessErr(t), Slice(body, 0, n), 1, rng, "closed", t)
        ELSE Result(s1, 0, "EOF", <<>>, 1, rng, "closed", t)

\* ReadAt's cache test.
CacheHit_Inclusive(s, len, off) ==
    /\ s.last.present
    /\ off >= s.lastOffset
    /\ off + len <= s.lastOffset + Len(s.last.buf)

CacheHit(s, len, off) ==
    /\ s.last.present
    /\ off > s.lastOffset
    /\ off + len <= s.lastOffset + Len(s.last.buf)

\* ReadAt's cache-hit path: copy from the cache.
Hit_OneEarly(s, len, off) ==
    Local(s, len, "nil",
          Slice(s.last.buf, (off - s.lastOffset) - 1, ((off + len) - s.lastOffset) - 1))

Hit_FromStart(s, len, off) ==
    Local(s, len, "nil", Slice(s.last.buf, 0, len))

Hit(s, len, off) ==
    Local(s, len, "nil", Slice(s.last.buf, off - s.lastOffset, (off + len) - s.lastOffset))

\* ReadAt's cache-miss path: the request is built, then fetched.
Miss(s, len, off, t) ==
    LET rq == newReq(s)
    IN  IF rq.err # "nil"
        THEN Local(rq.s, 0, rq.err, <<>>)
        ELSE Fetch(rq.s, len, off, fmtRange(off, Max(MinFetch, len)), t)

\* ReadAt(buf, off) with len(buf) = len, the transport doing t.
ReadAt_NegativeIsNil(s, len, off, t) ==
    IF off < 0 THEN Local(s, 0, "nil", <<>>)
    ELSE IF CacheHit(s, len, off) THEN Hit(s, len, off)
    ELSE Miss(s, len, off, t)

ReadAt_MovesCursor(s, len, off, t) ==
    LET r == IF off < 0 THEN Local(s, 0, "EOF", <<>>)
             ELSE IF CacheHit(s, len, off) THEN Hit(s, len, off)
             ELSE Miss(s, len, off, t)
    IN  IF r.n > 0 THEN [r EXCEPT !.s.offset = off + r.n] ELSE r

ReadAt(s, len, off, t) ==
    IF off < 0 THEN Local(s, 0, "EOF", <<>>)
    ELSE IF CacheHit(s, len, off) THEN Hit(s, len, off)
    ELSE Miss(s, len, off, t)

\* Read(buf): ReadAt at the cursor; the cursor advances when err == nil.
Read_AdvancesOnError(s, len, t) ==
    LET r == ReadAt(s, len, s.offset, t)
    IN  [r EXCEPT !.s.offset = r.s.offset + r.n]

Read(s, len, t) ==
    LET r == ReadAt(s, len, s.offset, t)
    IN  IF r.err = "nil"
        THEN [r EXCEPT !.s.offset = r.s.offset + r.n]
        ELSE r

\* Seek(offset, whence)
Seek_EndMoves(s, delta, whence) ==
    IF whence = SeekStart
    THEN Local([s EXCEPT !.offset = delta], delta, "nil", <<>>)
    ELSE IF whence = SeekCurrent
    THEN Local([s EXCEPT !.offset = s.offset + delta], s.offset + delta, "nil", <<>>)
    ELSE IF whence = SeekEnd
    THEN Local([s EXCEPT !.offset = delta], 0, "notimpl", <<>>)
    ELSE Local(s, 0, "ErrInvalid", <<>>)

Seek_Clamps(s, delta, whence) ==
    IF whence = SeekStart
    THEN Local([s EXCEPT !.offset = Max(0, delta)], Max(0, delta), "nil", <<>>)
    ELSE IF whence = SeekCurrent
    THEN Local([s EXCEPT !.offset = Max(0, s.offset + delta)], Max(0, s.offset + delta),
               "nil", <<>>)
    ELSE IF whence = SeekEnd
    THEN Local(s, 0, "notimpl", <<>>)
    ELSE Local(s, 0, "ErrInvalid", <<>>)

Seek(s, delta, whence) ==
    IF whence = SeekStart
    THEN Local([s EXCEPT !.offset = delta], delta, "nil", <<>>)
    ELSE IF whence = SeekCurrent
    THEN Local([s EXCEPT !.offset = s.offset + delta], s.offset + delta, "nil", <<>>)
    ELSE IF whence = SeekEnd
    THEN Local(s, 0, "notimpl", <<>>)
    ELSE Local(s, 0, "ErrInvalid", <<>>)

\* Size(): one HEAD; the response body is not read and not closed.
HeadResult(s, n, err, body, h) ==
    [Result(s, n, err, <<>>, 0, NoRange, body, h) EXCEPT !.heads = 1]

Size_RetriesHead(s, h) ==
    LET rq == newReq(s)
    IN  IF rq.err # "nil" THEN Local(rq.s, 0, rq.err, <<>>)
        ELSE IF h.doErr
        THEN [HeadResult(rq.s, 0, "transport", "none", h) EXCEPT !.heads = 2]
        ELSE IF h.contentLength < 0 THEN HeadResult(rq.s, 0, "nolength", "open", h)
        ELSE HeadResult(rq.s, h.contentLength, "nil", "open", h)

Size_ZeroWhenUnknown(s, h) ==
    LET rq == newReq(s)
    IN  IF rq.err # "nil" THEN Local(rq.s, 0, rq.err, <<>>)
        ELSE IF h.doErr THEN HeadResult(rq.s, 0, "transport", "none", h)
        ELSE IF h.contentLength < 0 THEN HeadResult(rq.s, 0, "nil", "open", h)
        ELSE HeadResult(rq.s, h.contentLength, "nil", "open", h)

Size(s, h) ==
    LET rq == newReq(s)
    IN  IF rq.err # "nil" THEN Local(rq.s, 0, rq.err, <<>>)
        ELSE IF h.doErr THEN HeadResult(rq.s, 0, "transport", "none", h)
        ELSE IF h.contentLength < 0 THEN HeadResult(rq.s, 0, "nolength", "open", h)
        ELSE HeadResult(rq.s, h.contentLength, "nil", "open", h)

\* ------------------------------------------------------------ actions
\* The observation of a call: its name and arguments with its Result.
Call(op, len, off, whence, r) ==
    [op |-> op, len |-> len, off |-> off, whence |-> whence,
     n |-> r.n, err |-> r.err, data |-> r.data, gets |-> r.gets, heads |-> r.heads,
     range |-> r.range, body |-> r.body, t |-> r.t]

\* The call's effect on the reader's fields.
Becomes(r) ==
    /\ url' = r.s.url
    /\ offset' = r.s.offset
    /\ last' = r.s.last
    /\ lastOffset' = r.s.lastOffset

NoTally == [calls |-> 0, misses |-> 0, atStart |-> 0]

\* No concurrent callers.
NoRace == [s0 |-> New, op |-> <<>>, pc |-> <<>>, loc |-> <<>>, overlapped |-> FALSE]

Init ==
    /\ resource \in Resources
    /\ URL \in {"good", "bad"}
    /\ url = New.url
    /\ offset = New.offset
    /\ last = New.last
    /\ lastOffset = New.lastOffset
    /\ ret = Call("New", 0, 0, 0, Local(New, 0, "nil", <<>>))
    /\ chunk = 0
    /\ out = <<>>
    /\ numReq = 0
    /\ tally = NoTally
    /\ race = NoRace

\* The transport acts only when the call sends a GET.
GetsFor(r0) == IF r0.gets = 0 THEN {NoOutcome} ELSE GetOutcomes

DoReadAt ==
    \E len \in Lengths, off \in Offsets :
        \E t \in GetsFor(ReadAt(Self, len, off, GetFine)) :
            \E r \in {ReadAt(Self, len, off, t)} :
                /\ Becomes(r)
                /\ ret' = Call("ReadAt", len, off, 0, r)
                /\ UNCHANGED <<resource, URL, chunk, out, numReq, tally, race>>

DoRead ==
    \E len \in Lengths :
        \E t \in GetsFor(Read(Self, len, GetFine)) :
            \E r \in {Read(Self, len, t)} :
                /\ Becomes(r)
                /\ ret' = Call("Read", len, offset, 0, r)
                /\ UNCHANGED <<resource, URL, chunk, out, numReq, tally, race>>

DoSeek ==
    \E delta \in (0 - MaxOff)..MaxOff, whence \in Whences :
        \E r \in {Seek(Self, delta, whence)} :
            /\ r.err = "nil" => r.s.offset \in Offsets
            /\ Becomes(r)
            /\ ret' = Call("Seek", 0, delta, whence, r)
            /\ UNCHANGED <<resource, URL, chunk, out, numReq, tally, race>>

DoSize ==
    \E h \in HeadOutcomes :
        \E r \in {Size(Self, h)} :
            /\ Becomes(r)
            /\ ret' = Call("Size", 0, 0, 0, r)
            /\ UNCHANGED <<resource, URL, chunk, out, numReq, tally, race>>

Next == DoReadAt \/ DoRead \/ DoSeek \/ DoSize

Spec == Init /\ [][Next]_vars

\* --------------------------------------- chunked sequential reading
\* TestReadOffEnd's scenario: a reader with a parsing URL over a resource of N
\* bytes and a transport that does not fail is read from cursor 0 with Read in
\* chunks of one size that divides N, and ExtraReads times more after the end.
InitChunks ==
    /\ resource \in {ResourceOf(n) : n \in 0..MaxTotal}
    /\ chunk \in {c \in 1..MaxChunk : Len(resource) % c = 0}
    /\ URL = "good"
    /\ url = New.url
    /\ offset = New.offset
    /\ last = New.last
    /\ lastOffset = New.lastOffset
    /\ ret = Call("New", 0, 0, 0, Local(New, 0, "nil", <<>>))
    /\ out = <<>>
    /\ numReq = 0
    /\ tally = NoTally
    /\ race = NoRace

DoReadChunk ==
    /\ Len(out) < (Len(resource) \div chunk) + ExtraReads
    /\ \E r \in {Read(Self, chunk, GetFine)} :
            /\ Becomes(r)
            /\ ret' = Call("Read", chunk, offset, 0, r)
            /\ out' = Append(out, r.data)
    /\ UNCHANGED <<resource, URL, chunk, numReq, tally, race>>

NextChunks == DoReadChunk

SpecChunks == InitChunks /\ [][NextChunks]_vars

\* ---------------------------------------- counted ReadAt sequences
\* TestReadAt's scenario made general: a sequence of up to MaxCalls ReadAt
\* calls, of any length and offset, against a transport that counts the
\* requests it gets (numReq) and may answer or fail in any way.  tally counts
\* the calls, and those among them that were cache misses at an offset >= 0: a
\* call misses unless its span lies in the cached span and starts after
\* cacheStart.
StrictlyInside(c, cStart, off, len) == cStart < off /\ off + len <= cStart + Len(c)

IsMiss(s, len, off) ==
    /\ off >= 0
    /\ ~(s.last.present /\ StrictlyInside(s.last.buf, s.lastOffset, off, len))

\* The read starts exactly where the cache starts, and the cache holds all
\* of its span.
StartsAtCacheStart(s, len, off) ==
    /\ s.last.present
    /\ off = s.lastOffset
    /\ off + len <= s.lastOffset + Len(s.last.buf)

InitCounted ==
    /\ resource \in Resources
    /\ URL \in {"good", "bad"}
    /\ url = New.url
    /\ offset = New.offset
    /\ last = New.last
    /\ lastOffset = New.lastOffset
    /\ ret = Call("New", 0, 0, 0, Local(New, 0, "nil", <<>>))
    /\ chunk = 0
    /\ out = <<>>
    /\ numReq = 0
    /\ tally = NoTally
    /\ race = NoRace

DoCountedReadAt ==
    /\ tally.calls < MaxCalls
    /\ \E len \in Lengths, off \in Offsets :
        \E t \in GetsFor(ReadAt(Self, len, off, GetFine)) :
            \E r \in {ReadAt(Self, len, off, t)} :
                /\ Becomes(r)
                /\ ret' = Call("ReadAt", len, off, 0, r)
                /\ numReq' = numReq + r.gets
                /\ tally' = [calls |-> tally.calls + 1,
                             misses |-> tally.misses + IF IsMiss(Self, len, off) THEN 1 ELSE 0,
                             atStart |-> tally.atStart
                                         + IF StartsAtCacheStart(Self, len, off) THEN 1 ELSE 0]
    /\ UNCHANGED <<resource, URL, chunk, out, race>>

NextCounted == DoCountedReadAt

SpecCounted == InitCounted /\ [][NextCounted]_vars

\* ------------------------------------- failure-free transport, and the
\* ------------------------------------------- the tests' transports
\* ReadAt and Read in any order on a reader whose URL parses, every GET
\* answered by a transport of the tests: the one that sends its whole string
\* whatever the Range, or the one that knows four Range values and panics on
\* any other.  numReq counts the requests the transport answered.  A panic
\* ends the program.
Running == ret.err # "panic"

Answered(r) == IF r.err = "panic" THEN 0 ELSE r.gets

TestGetsFor(r0) == IF r0.gets = 0 THEN {NoOutcome} ELSE TestOutcomes

InitTests ==
    /\ resource \in Resources
    /\ URL = "good"
    /\ url = New.url
    /\ offset = New.offset
    /\ last = New.last
    /\ lastOffset = New.lastOffset
    /\ ret = Call("New", 0, 0, 0, Local(New, 0, "nil", <<>>))
    /\ chunk = 0
    /\ out = <<>>
    /\ numReq = 0
    /\ tally = NoTally
    /\ race = NoRace

DoTestReadAt ==
    /\ Running
    /\ numReq < MaxCalls
    /\ \E len \in Lengths, off \in Offsets :
        \E t \in TestGetsFor(ReadAt(Self, len, off, GetFine)) :
            \E r \in {ReadAt(Self, len, off, t)} :
                /\ Becomes(r)
                /\ ret' = Call("ReadAt", len, off, 0, r)
                /\ numReq' = numReq + Answered(r)
    /\ UNCHANGED <<resource, URL, chunk, out, tally, race>>

DoTestRead ==
    /\ Running
    /\ numReq < MaxCalls
    /\ \E len \in Lengths :
        \E t \in TestGetsFor(Read(Self, len, GetFine)) :
            \E r \in {Read(Self, len, t)} :
                /\ Becomes(r)
                /\ ret' = Call("Read", len, offset, 0, r)
                /\ numReq' = numReq + Answered(r)
    /\ UNCHANGED <<resource, URL, chunk, out, tally, race>>

NextTests == DoTestReadAt \/ DoTestRead

SpecTests == InitTests /\ [][NextTests]_vars

\* ------------------------------------- uncached reader before the cache
\* ReadAt, Read and Seek in any order against a transport that answers every
\* GET with 200 and the bytes of the range, clamped to the resource.
DoFineReadAt ==
    \E len \in Lengths, off \in Offsets :
        \E r \in {ReadAt(Self, len, off, GetFine)} :
            /\ Becomes(r)
            /\ ret' = Call("ReadAt", len, off, 0, r)
            /\ UNCHANGED <<resource, URL, chunk, out, numReq, tally, race>>

DoFineRead ==
    \E len \in Lengths :
        \E r \in {Read(Self, len, GetFine)} :
            /\ Becomes(r)
            /\ ret' = Call("Read", len, offset, 0, r)
            /\ UNCHANGED <<resource, URL, chunk, out, numReq, tally, race>>

NextFine == DoFineReadAt \/ DoFineRead \/ DoSeek

SpecFine == Init /\ [][NextFine]_vars

\* The earlier reader, which has no cache: ReadAt seeks to off, Reads and
\* seeks back.  Read sends GET with Range bytes=off-(off+len-1) and returns
\* what one Read of the body gives: the bytes that fit the buffer, and
\* end-of-data from a body that is empty unless the buffer is empty too.
UncachedReadAt(len, off) ==
    LET rq == newReq(New)
        body == RangeBody(fmtRange(off, len))
        n == Min(len, Len(body))
    IN  IF rq.err # "nil"
        THEN [n |-> 0, err |-> rq.err, data |-> <<>>]
        ELSE [n |-> n,
              err |-> IF Len(body) = 0 /\ n # len THEN "EOF" ELSE "nil",
              data |-> Slice(body, 0, n)]

\* ------------------------------------------------ concurrent callers
\* Two goroutines call one SeekingHTTP without synchronisation, one call
\* each, on a reader that is new or has one fetch behind it: two calls of
\* one kind, or a Seek or a Size beside any call.  The URL parses and the
\* transport does not fail.
\*
\* A step of a call is one load or one store of one word of memory the two
\* callers share: a field of s (s.offset, s.last, s.lastOffset, s.url) or
\* one of the three words of the slice b.buf of a bytes.Buffer (the pointer
\* to its array, its length, its capacity); or the load or the store of one
\* byte of an array.  s.offset += n is a load and a store.  b.buf = b.buf[:n]
\* is a load of the capacity, which panics when n is past it, and a store
\* of the length.  The store of a new slice is three stores, the read of a
\* slice as many loads as words are used, and where the language leaves the
\* order of the accesses of one statement open they come in any order.
\* Between two steps of one caller the other caller can take any number of
\* its own.  Memory is sequentially consistent.  SeekingHTTP.Client is set
\* before the calls, so that init() finds it set.
\*
\* A copy moves its bytes one by one, in an order the build chooses, and
\* the other caller can store into the bytes it copies from while it does.
\* The bytes a Read of the body stores into an array are one step each, in
\* any order.  A copy out of an array is two steps, its start and its end:
\* each byte the other caller stores into its source between the two
\* decides, when it is stored, whether the copy has moved that byte already
\* and keeps the old one (race.loc[g].kept), or has not and moves what the
\* byte holds when the copy moves it.  Every byte of the copy is so the
\* byte the source held at some moment between the start and the end, each
\* byte at a moment of its own.
\*
\* s.last is a pointer: race.ptr is the buffer it points to (0: nil), buffer
\* g the one caller g makes at "s.last = &bytes.Buffer{}", buffer WarmBuffer
\* the one of the fetch before the two calls.  race.bufs[b] holds the three
\* words of b.buf, race.arrs[a] the array a: the capacity it was made with
\* and its bytes.  With words of two different slices in one b.buf a call
\* can load or store bytes outside the array: what the program does from
\* there on is not defined, and the model follows it no further (err
\* "undefined").  A panic ends the program too.
Callers == {1, 2}
Other(g) == 3 - g

WarmBuffer == Cardinality(Callers) + 1
Buffers == Callers \cup {WarmBuffer}

\* bytes.MinRead: the room grow makes before every Read of the body.
MinRead == 512

\* The arrays: one for each place that can hold one, the buffers and each
\* caller's two locals; 0 is no array.  An array that nothing refers to any
\* more is given back, and the arrays are numbered in the order of the
\* places that hold them: which array is which shows only in who refers to
\* it.
Arrays == 1..(Cardinality(Buffers) + 2 * Cardinality(Callers))

\* An array is its capacity and its bytes up to the last that is not zero.
NoArray == [cap |-> 0, mem |-> <<>>]

\* The three words of a nil slice.
NoBuffer == [arr |-> 0, len |-> 0, cap |-> 0]

\* The bytes of a new array are zero.
Zeros(n) == [j \in 1..n |-> 0]

Trimmed(bytes) ==
    LET nz == {j \in 1..Len(bytes) : bytes[j] # 0}
    IN  IF nz = {} THEN <<>>
        ELSE SubSeq(bytes, 1, CHOOSE j \in nz : \A k \in nz : k <= j)

\* Byte j (from 1) of array a.
ByteAt(a, j) == IF j <= Len(a.mem) THEN a.mem[j] ELSE 0

\* A byte of the caller's buf that no copy wrote.
Untouched == 0 - 1

\* A byte of a slice that lies past the end of its array: it is whatever
\* the memory after the array holds.
Outside == 0 - 2

\* The capacities the allocator gives arrays of MinRead bytes and more: its
\* size classes, and whole pages above the largest.
SizeClasses ==
    <<512, 576, 640, 704, 768, 896, 1024, 1152, 1280, 1408, 1536, 1792, 2048, 2304, 2688,
      3072, 3200, 3456, 4096, 4864, 5120, 5376, 6144, 6528, 6784, 6912, 8192, 9472, 9728,
      10240, 10880, 12288, 13568, 14336, 16384, 18432, 19072, 20480, 21760, 24576, 27264,
      28672, 32768>>

PageSize == 8192

RoundUp(c) ==
    IF c > SizeClasses[Len(SizeClasses)] THEN ((c + PageSize - 1) \div PageSize) * PageSize
    ELSE SizeClasses[CHOOSE k \in 1..Len(SizeClasses) :
                        /\ SizeClasses[k] >= c
                        /\ \A j \in 1..(k - 1) : SizeClasses[j] < c]

\* growSlice(b, n): the capacity of the new array for a slice of len bytes
\* and capacity cap.
GrownCap(len, cap) == RoundUp(IF len + MinRead < 2 * cap THEN 2 * cap ELSE len + MinRead)

\* The resource of the two callers: no byte of it is zero, as the bytes of a
\* new array are.
RaceResource == [i \in 1..(2 * MaxRace) |-> i]

SizeCall == [kind |-> "Size", len |-> 0, off |-> 0, whence |-> 0]
SeekCall(delta, whence) == [kind |-> "Seek", len |-> 0, off |-> delta, whence |-> whence]
ReadCall(len) == [kind |-> "Read", len |-> len, off |-> 0, whence |-> 0]
ReadAtCall(len, off) == [kind |-> "ReadAt", len |-> len, off |-> off, whence |-> 0]

\* The offsets of the ReadAt calls: the start, the middle and the end of the
\* resource.
RaceOffsets == {0, MaxRace, 2 * MaxRace}

\* The calls: every buffer is of MaxRace bytes, half the resource, and every
\* Seek is by MaxRace.
Calls ==
    {SizeCall}
    \cup {SeekCall(MaxRace, whence) : whence \in {SeekStart, SeekCurrent}}
    \cup {ReadCall(MaxRace)}
    \cup {ReadAtCall(MaxRace, off) : off \in RaceOffsets}

\* A number for each call: the two callers are alike, so a pair of calls is
\* taken once, the call of the smaller number as caller 1's.
CallNo(c) ==
    ((IF c.kind = "Size" THEN 0 ELSE IF c.kind = "Seek" THEN 1
      ELSE IF c.kind = "Read" THEN 2 ELSE 3) * (2 * MaxRace + 1) + c.off) * 2 + c.whence

\* The pairs of calls: two of one kind, or a Size or a Seek beside any call.
Paired(a, b) ==
    /\ CallNo(a) <= CallNo(b)
    /\ a.kind = b.kind \/ a.kind \in {"Size", "Seek"}

\* The pairings of calls that are not safe together.
PairNames == <<"Read with Read", "Seek with Read", "ReadAt with ReadAt">>

\* The pairing that calls a and b on reader s are: two ReadAt calls count
\* when they read at different offsets and the second, at the larger
\* offset, misses.
PairName(s, a, b) ==
    IF a.kind = "Read" /\ b.kind = "Read" THEN PairNames[1]
    ELSE IF a.kind = "Seek" /\ b.kind = "Read" THEN PairNames[2]
    ELSE IF a.kind = "ReadAt" /\ b.kind = "ReadAt" /\ a.off # b.off /\ IsMiss(s, b.len, b.off)
    THEN PairNames[3]
    ELSE "other"

\* What a caller holds: the offset it reads at; the values it loaded (the
\* cursor, s.lastOffset, the buffer s.last pointed to, the words of b.buf)
\* and the words of the statement it is in that it has yet to load or
\* store; ReadFrom's m, i and count of body bytes; the bytes of the body a
\* Read has yet to store (todo); of a copy under way the number of bytes
\* (cnt), the byte of the array it starts after (start) and the bytes it
\* moved before the other caller stored into them (kept, each with its
\* place in the array); and what it returns.
NoLocals ==
    [off |-> 0, cur |-> 0, lo |-> 0, start |-> 0, b |-> 0, hp |-> 0, hl |-> 0, hc |-> 0,
     pend |-> {}, m |-> 0, i |-> 0, new |-> 0, sent |-> 0, eof |-> FALSE, missed |-> FALSE,
     cnt |-> 0, todo |-> {}, kept |-> {}, n |-> 0, err |-> "nil", data |-> <<>>]

\* The locals that live as long as the call: its offset, and whether it
\* missed.
Carried(l) == [NoLocals EXCEPT !.off = l.off, !.missed = l.missed]

\* A HEAD that is answered, with the length of the resource.
HeadFine == Outcome(FALSE, StatusOK, FALSE, 0, FALSE, Len(resource))

\* A call run alone, as one step.
Apply(s, c) ==
    IF c.kind = "Read" THEN Read(s, c.len, GetFine)
    ELSE IF c.kind = "ReadAt" THEN ReadAt(s, c.len, c.off, GetFine)
    ELSE IF c.kind = "Seek" THEN Seek(s, c.off, c.whence)
    ELSE Size(s, HeadFine)

Returned(r) == [n |-> r.n, err |-> r.err, data |-> r.data]

\* What the two calls return and where the cursor ends when call a runs to
\* its end before call b starts.
InOrder(s, a, b) ==
    LET ra == Apply(s, a)
        rb == Apply(ra.s, b)
    IN  [first |-> Returned(ra), second |-> Returned(rb), offset |-> rb.s.offset]

Busy(g) == race.pc[g] \notin {"start", "done"}

Crashed == \E g \in Callers : race.loc[g].err \in {"panic", "undefined"}

\* Both concurrent calls have returned.
BothDone == race.pc = <<"done", "done">>

\* What the two concurrent calls returned, and where the cursor ended.
Observed ==
    [first |-> Returned(race.loc[1]), second |-> Returned(race.loc[2]), offset |-> offset]

Swapped(o) == [first |-> o.second, second |-> o.first, offset |-> o.offset]

\* The outcome is that of the two calls run one after the other, in one of
\* the two orders.
MatchesASequentialOrder ==
    \/ Observed = InOrder(race.s0, race.op[1], race.op[2])
    \/ Observed = Swapped(InOrder(race.s0, race.op[2], race.op[1]))

\* Both calls returned, neither panicked, and what they returned with the
\* cursor they left is the outcome of neither order.
EndedOutOfOrder == BothDone /\ ~Crashed /\ ~MatchesASequentialOrder

\* The array of id a as r has it.
ArrayOf(r, a) == IF a = 0 THEN NoArray ELSE r.arrs[a]

\* What s.last.Bytes() holds, as r has it: len(b.buf) bytes, those past the
\* end of the array that the pointer of b.buf names outside it.
CacheOf(r) ==
    IF r.ptr = 0 THEN NilBuffer
    ELSE LET a == ArrayOf(r, r.bufs[r.ptr].arr)
             len == r.bufs[r.ptr].len
         IN  [present |-> TRUE,
              buf |-> [j \in 1..len |-> IF j <= a.cap THEN ByteAt(a, j) ELSE Outside]]

\* The copy under way of the caller with locals l moves byte p (from 1) of
\* its source: the byte it kept, or the byte the array holds now.
Moved(l, p) ==
    IF \E kv \in l.kept : kv[1] = p THEN (CHOOSE kv \in l.kept : kv[1] = p)[2]
    ELSE ByteAt(ArrayOf(race, l.hp), p)

\* copy(buf, src) for a buf of len bytes, at the end of the copy of the
\* caller with locals l: the bytes of buf the call returns.
Copied(l, len) ==
    [j \in 1..len |-> IF j <= l.cnt THEN Moved(l, l.start + j) ELSE Untouched]


\* The array with bytes written after byte i.
Written(a, i, bytes) ==
    IF i >= Len(a.mem)
    THEN IF Trimmed(bytes) = <<>> THEN a
         ELSE [a EXCEPT !.mem = @ \o Zeros(i - Len(@)) \o Trimmed(bytes)]
    ELSE [a EXCEPT !.mem = Trimmed(SubSeq(@, 1, i) \o bytes
                                   \o SubSeq(@, i + Len(bytes) + 1, Len(@)))]

\* The first free array.
Fresh(r) ==
    CHOOSE a \in Arrays : r.arrs[a] = NoArray /\ \A k \in Arrays : k < a => r.arrs[k] # NoArray

\* The arrays held, each once, in the order of the first holder of each.
RECURSIVE InOrderHeld(_, _)
InOrderHeld(held, seen) ==
    IF held = <<>> THEN seen
    ELSE InOrderHeld(Tail(held),
                     IF Head(held) = 0 \/ \E n \in 1..Len(seen) : seen[n] = Head(held)
                     THEN seen ELSE Append(seen, Head(held)))

\* r with the buffers bufs and the arrays of order only, the arrays numbered
\* by their place in order.
Kept(r, bufs, order) ==
    LET Numbered(a) == IF a = 0 THEN 0 ELSE CHOOSE n \in 1..Len(order) : order[n] = a
    IN  [r EXCEPT !.bufs = [b \in Buffers |->
                                IF b \in bufs
                                THEN [r.bufs[b] EXCEPT !.arr = Numbered(@)]
                                ELSE NoBuffer],
                  !.loc[1].hp = Numbered(@),
                  !.loc[1].new = Numbered(@),
                  !.loc[2].hp = Numbered(@),
                  !.loc[2].new = Numbered(@),
                  !.arrs = [n \in Arrays |->
                                IF n <= Len(order) THEN r.arrs[order[n]] ELSE NoArray]]

\* r without the buffers and arrays nothing refers to.  The buffers referred
\* to are s.last and those the callers loaded; the places that hold an
\* array are b.buf of these buffers and each caller's two locals.  A step
\* that changes no reference leaves buffers and arrays as they are.
Collected(r) ==
    LET References(q) ==
            <<q.ptr, q.loc[1].b, q.loc[2].b, q.bufs[1].arr, q.bufs[2].arr, q.bufs[3].arr,
              q.loc[1].hp, q.loc[1].new, q.loc[2].hp, q.loc[2].new>>
        live == {r.ptr} \cup {r.loc[g].b : g \in Callers}
        holders == [b \in Buffers |-> IF b \in live THEN r.bufs[b].arr ELSE 0]
                   \o <<r.loc[1].hp, r.loc[1].new, r.loc[2].hp, r.loc[2].new>>
    IN  IF References(r) = References(race) THEN r
        ELSE Kept(r, live, InOrderHeld(holders, <<>>))

\* The heap after the fetch of the resource into the warm buffer: ReadFrom
\* made an array of MinRead bytes, and a larger one when it found bytes in
\* it before the Read that met the end of the body.  It is the first array.
WarmCap == IF Len(resource) = 0 THEN MinRead ELSE GrownCap(Len(resource), MinRead)

\* The reader the two callers share: new, or after one ReadAt at the start.
RaceReader(warm) == IF warm THEN ReadAt(New, MaxRace, 0, GetFine).s ELSE New

\* The two callers before their calls a and b.  sched is the scheduler:
\* "any" runs either caller at every step; "pause" runs caller 2 up to the
\* line after "s.lastOffset = off", then caller 1 to its end, then caller 2
\* to its end.  shown are the pairings this run has seen end out of order.
RaceStart(warm, a, b, sched, shown) ==
    [s0 |-> RaceReader(warm), op |-> <<a, b>>, pc |-> <<"start", "start">>,
     loc |-> <<NoLocals, NoLocals>>, overlapped |-> FALSE, sched |-> sched, shown |-> shown,
     ptr |-> IF warm THEN WarmBuffer ELSE 0,
     bufs |-> [k \in Buffers |->
                 IF warm /\ k = WarmBuffer
                 THEN [arr |-> 1, len |-> Len(resource), cap |-> WarmCap]
                 ELSE NoBuffer],
     arrs |-> [k \in Arrays |->
                 IF warm /\ k = 1
                 THEN [cap |-> WarmCap, mem |-> Trimmed(resource)]
                 ELSE NoArray]]

\* The pairs of calls of pairing name ("other": of none), with the reader.
Scenarios(name) ==
    {sc \in [warm : BOOLEAN, a : Calls, b : Calls] :
        /\ Paired(sc.a, sc.b)
        /\ PairName(RaceReader(sc.warm), sc.a, sc.b) = name}

InitRacing(names, sched) ==
    /\ resource = RaceResource
    /\ URL = "good"
    /\ \E name \in names :
        \E sc \in Scenarios(name) :
            race = RaceStart(sc.warm, sc.a, sc.b, sched, <<>>)
    /\ url = race.s0.url
    /\ offset = race.s0.offset
    /\ last = race.s0.last
    /\ lastOffset = race.s0.lastOffset
    /\ ret = Call("New", 0, 0, 0, Local(New, 0, "nil", <<>>))
    /\ chunk = 0
    /\ out = <<>>
    /\ numReq = 0
    /\ tally = NoTally

\* Any pair of calls, under a scheduler that runs either caller at every
\* step.
InitRace == InitRacing({PairNames[k] : k \in 1..Len(PairNames)} \cup {"other"}, "any")

\* The first pairing, under the scheduler that pauses caller 2.
InitPaused == InitRacing({PairNames[1]}, "pause")

\* Where the scheduler "pause" holds caller 2: before line 171, with its
\* fetch in the cache and s.lastOffset set.
Pause == "testLen"

\* The scheduler lets caller g take a step.
Turn(g) ==
    \/ race.sched = "any"
    \/ g = 2 /\ (race.pc[2] # Pause \/ race.pc[1] = "done")
    \/ g = 1 /\ race.pc[2] \in {Pause, "done"}

\* Caller g goes on at pc with locals l; its first step starts its call.
Go(g, pc, l) ==
    [race EXCEPT !.pc[g] = pc,
                 !.loc[g] = l,
                 !.overlapped = @ \/ (race.pc[g] = "start" /\ Busy(Other(g)))]

\* Caller g returns n, err and data from its call; its other locals are
\* gone.  Read goes on to the cursor when ReadAt returned err == nil.
Return(g, n, err, data) ==
    Go(g, IF race.op[g].kind = "Read" /\ err = "nil" THEN "return" ELSE "done",
       [NoLocals EXCEPT !.n = n, !.err = err, !.data = data, !.missed = race.loc[g].missed])

\* Caller g panics: the program ends.
Panic(g) == Go(g, "done", [NoLocals EXCEPT !.err = "panic"])

\* Caller g reaches memory outside an array.
Undefined(g) == Go(g, "done", [NoLocals EXCEPT !.err = "undefined"])

\* The first half of b.buf = b.buf[:n] by caller g: cap(b.buf) is loaded,
\* and the slice expression panics when n is past it.
Checked(g, n, pc, l) == IF n > race.bufs[l.b].cap THEN Panic(g) ELSE Go(g, pc, l)

\* The second half: the length is stored.
Set(g, b, n, pc, l) == [Go(g, pc, l) EXCEPT !.bufs[b].len = n]

\* Caller g, with locals l, is at pc until it has loaded the words of its
\* statement, and then goes on to next.
Loaded(g, pc, next, l) == Go(g, IF l.pend # {} THEN pc ELSE next, l)

\* copy(buf, src) by caller g, who will return n, starts: src is count bytes
\* after byte from of the array the caller loaded.
CopiedOut(g, n, from, count) ==
    LET l == race.loc[g]
    IN  IF count > 0 /\ from + count > ArrayOf(race, l.hp).cap THEN Undefined(g)
        ELSE Go(g, "copying", [l EXCEPT !.n = n, !.start = from, !.cnt = count])

\* A step of caller g that leaves the two callers and the heap as next, with
\* cursor c and cache start o.
Step(g, next, c, o) ==
    /\ ~Crashed
    /\ Turn(g)
    /\ \E r \in {next} :
            /\ race' = Collected(r)
            /\ last' = CacheOf(r)
    /\ offset' = c
    /\ lastOffset' = o
    /\ UNCHANGED <<resource, URL, ret, chunk, out, numReq, tally>>

\* Seek, SeekStart: s.offset = offset.
SeekSet(g) ==
    /\ race.pc[g] = "start"
    /\ race.op[g].kind = "Seek"
    /\ race.op[g].whence = SeekStart
    /\ url' = url
    /\ Step(g, Go(g, "seekReturn", race.loc[g]), race.op[g].off, lastOffset)

\* Seek, SeekCurrent: s.offset += offset, the load.
SeekLoad(g) ==
    /\ race.pc[g] = "start"
    /\ race.op[g].kind = "Seek"
    /\ race.op[g].whence = SeekCurrent
    /\ url' = url
    /\ Step(g, Go(g, "seekStore", [race.loc[g] EXCEPT !.cur = offset]), offset, lastOffset)

\* Seek, SeekCurrent: s.offset += offset, the store.
SeekStore(g) ==
    /\ race.pc[g] = "seekStore"
    /\ url' = url
    /\ Step(g, Go(g, "seekReturn", NoLocals), race.loc[g].cur + race.op[g].off, lastOffset)

\* Seek: return s.offset, nil.
SeekReturn(g) ==
    /\ race.pc[g] = "seekReturn"
    /\ url' = url
    /\ Step(g, Go(g, "done", [race.loc[g] EXCEPT !.n = offset, !.err = "nil"]),
            offset, lastOffset)

\* newReq of ReadAt and of Size: s.url == nil.
NewReqTest(g) ==
    /\ \/ race.pc[g] = "start" /\ race.op[g].kind = "Size"
       \/ race.pc[g] = "newReq"
    /\ url' = url
    /\ Step(g, Go(g, IF url = "nil" THEN "parse"
                     ELSE IF race.op[g].kind = "Size" THEN "head" ELSE "testNil",
                  race.loc[g]),
            offset, lastOffset)

\* newReq: s.url, err = url.Parse(s.URL).
NewReqParse(g) ==
    /\ race.pc[g] = "parse"
    /\ \E rq \in {newReq([Self EXCEPT !.url = "nil"])} :
            /\ url' = rq.s.url
            /\ Step(g, IF rq.err # "nil" THEN Return(g, 0, rq.err, <<>>)
                       ELSE Go(g, IF race.op[g].kind = "Size" THEN "head" ELSE "testNil",
                               race.loc[g]),
                    offset, lastOffset)

\* Size: the HEAD is answered and Size returns resp.ContentLength.
SizeReturn(g) ==
    /\ race.pc[g] = "head"
    /\ url' = url
    /\ Step(g, Return(g, Size(Self, HeadFine).n, "nil", <<>>), offset, lastOffset)

\* Read: s.offset is read as ReadAt's offset.
ReadArg(g) ==
    /\ race.pc[g] = "start"
    /\ race.op[g].kind = "Read"
    /\ url' = url
    /\ Step(g, Go(g, "test", [race.loc[g] EXCEPT !.off = offset]), offset, lastOffset)

\* Caller g found that the cache does not serve its read.
Missed(g, l) == Go(g, "newReq", [Carried(l) EXCEPT !.missed = TRUE])

\* ReadAt: off < 0, then s.last != nil.
ReadAtTestLast(g) ==
    /\ \/ race.pc[g] = "start" /\ race.op[g].kind = "ReadAt"
       \/ race.pc[g] = "test"
    /\ LET off == IF race.pc[g] = "start" THEN race.op[g].off ELSE race.loc[g].off
           l == [race.loc[g] EXCEPT !.off = off]
           r == IF off < 0 THEN Return(g, 0, "EOF", <<>>)
                ELSE IF race.ptr # 0 THEN Go(g, "testOffset", l)
                ELSE Missed(g, l)
       IN  Step(g, r, offset, lastOffset)
    /\ url' = url

\* ReadAt: off > s.lastOffset.
ReadAtTestOffset(g) ==
    /\ race.pc[g] = "testOffset"
    /\ url' = url
    /\ LET l == race.loc[g]
       IN  Step(g, IF l.off > lastOffset
                   THEN Go(g, "end", [l EXCEPT !.pend = {"lastOffset", "last", "len"}])
                   ELSE Missed(g, l),
                offset, lastOffset)

\* ReadAt: end <= s.lastOffset + int64(s.last.Len()), once the caller with
\* locals l has loaded some of s.lastOffset, s.last and the length.  The
\* language leaves open whether the field or the call is evaluated first.
EndCompared(g, l) ==
    IF l.pend # {} THEN Go(g, "end", l)
    ELSE IF l.off + race.op[g].len <= l.lo + l.hl THEN Go(g, "hitStart", Carried(l))
    ELSE Missed(g, l)

\* ReadAt, line 95: s.lastOffset is loaded.
ReadAtEndOffset(g) ==
    /\ race.pc[g] = "end"
    /\ "lastOffset" \in race.loc[g].pend
    /\ url' = url
    /\ Step(g, EndCompared(g, [race.loc[g] EXCEPT !.lo = lastOffset, !.pend = @ \ {"lastOffset"}]),
            offset, lastOffset)

\* ReadAt, line 95: s.last is loaded for s.last.Len().
ReadAtEndLast(g) ==
    /\ race.pc[g] = "end"
    /\ "last" \in race.loc[g].pend
    /\ url' = url
    /\ Step(g, EndCompared(g, [race.loc[g] EXCEPT !.b = race.ptr, !.pend = @ \ {"last"}]),
            offset, lastOffset)

\* ReadAt, line 95: Len() loads the length of b.buf.
ReadAtEndLen(g) ==
    /\ race.pc[g] = "end"
    /\ race.loc[g].pend \cap {"last", "len"} = {"len"}
    /\ url' = url
    /\ LET l == race.loc[g]
       IN  Step(g, EndCompared(g, [l EXCEPT !.hl = race.bufs[l.b].len, !.pend = @ \ {"len"}]),
                offset, lastOffset)

\* ReadAt: start := off - s.lastOffset.
ReadAtHitStart(g) ==
    /\ race.pc[g] = "hitStart"
    /\ url' = url
    /\ LET l == race.loc[g]
       IN  Step(g, Go(g, "hit", [l EXCEPT !.start = l.off - lastOffset,
                                          !.pend = {"lastOffset", "last", "ptr", "cap"}]),
                offset, lastOffset)

\* ReadAt, line 100: copy(buf, s.last.Bytes()[start:end-s.lastOffset]) loads
\* s.lastOffset, s.last, and the pointer and the capacity of b.buf, the
\* field and the call in either order.

ReadAtHitOffset(g) ==
    /\ race.pc[g] = "hit"
    /\ "lastOffset" \in race.loc[g].pend
    /\ url' = url
    /\ Step(g, Loaded(g, "hit", "hitCopy",
                      [race.loc[g] EXCEPT !.lo = lastOffset, !.pend = @ \ {"lastOffset"}]),
            offset, lastOffset)

ReadAtHitLast(g) ==
    /\ race.pc[g] = "hit"
    /\ "last" \in race.loc[g].pend
    /\ url' = url
    /\ Step(g, Loaded(g, "hit", "hitCopy",
                      [race.loc[g] EXCEPT !.b = race.ptr, !.pend = @ \ {"last"}]),
            offset, lastOffset)

ReadAtHitPtr(g) ==
    /\ race.pc[g] = "hit"
    /\ race.loc[g].pend \cap {"last", "ptr"} = {"ptr"}
    /\ url' = url
    /\ LET l == race.loc[g]
       IN  Step(g, Loaded(g, "hit", "hitCopy",
                          [l EXCEPT !.hp = race.bufs[l.b].arr, !.pend = @ \ {"ptr"}]),
                offset, lastOffset)

ReadAtHitCap(g) ==
    /\ race.pc[g] = "hit"
    /\ race.loc[g].pend \cap {"last", "cap"} = {"cap"}
    /\ url' = url
    /\ LET l == race.loc[g]
       IN  Step(g, Loaded(g, "hit", "hitCopy",
                          [l EXCEPT !.hc = race.bufs[l.b].cap, !.pend = @ \ {"cap"}]),
                offset, lastOffset)

\* ReadAt, line 100: the slice expression panics when its bounds are out of
\* order or past the capacity; then the copy of the bytes starts.
ReadAtHitCopy(g) ==
    /\ race.pc[g] = "hitCopy"
    /\ url' = url
    /\ LET l == race.loc[g]
           len == race.op[g].len
           hi == (l.off + len) - l.lo
       IN  Step(g, IF l.start < 0 \/ l.start > hi \/ hi > l.hc THEN Panic(g)
                   ELSE CopiedOut(g, len, l.start, Min(len, hi - l.start)),
                offset, lastOffset)

\* ReadAt: s.last == nil.
ReadAtTestNil(g) ==
    /\ race.pc[g] = "testNil"
    /\ url' = url
    /\ Step(g, Go(g, IF race.ptr = 0 THEN "make" ELSE "resetLast", race.loc[g]),
            offset, lastOffset)

\* ReadAt: s.last = &bytes.Buffer{}.
ReadAtMake(g) ==
    /\ race.pc[g] = "make"
    /\ url' = url
    /\ Step(g, [Go(g, "readFrom", race.loc[g]) EXCEPT !.ptr = g], offset, lastOffset)

\* ReadAt: s.last is loaded for s.last.Reset().
ReadAtResetLast(g) ==
    /\ race.pc[g] = "resetLast"
    /\ url' = url
    /\ Step(g, Go(g, "reset", [race.loc[g] EXCEPT !.b = race.ptr]), offset, lastOffset)

\* Reset: b.buf = b.buf[:0] stores the length; the array and what is in it
\* stay.
ReadAtReset(g) ==
    /\ race.pc[g] = "reset"
    /\ url' = url
    /\ LET l == race.loc[g]
       IN  Step(g, Set(g, l.b, 0, "readFrom", [l EXCEPT !.b = 0]), offset, lastOffset)

\* ReadAt: the request is answered and s.last.ReadFrom(resp.Body) is called
\* on the buffer s.last points to now.
ReadFromEnter(g) ==
    /\ race.pc[g] = "readFrom"
    /\ url' = url
    /\ Step(g, Go(g, "growLen", [race.loc[g] EXCEPT !.b = race.ptr]), offset, lastOffset)

\* grow: m := b.Len().
ReadFromGrowLen(g) ==
    /\ race.pc[g] = "growLen"
    /\ url' = url
    /\ LET l == race.loc[g]
       IN  Step(g, Go(g, "tryLen", [l EXCEPT !.m = race.bufs[l.b].len]), offset, lastOffset)

\* tryGrowByReslice: l := len(b.buf).
ReadFromTryLen(g) ==
    /\ race.pc[g] = "tryLen"
    /\ url' = url
    /\ LET l == race.loc[g]
       IN  Step(g, Go(g, "tryCap", [l EXCEPT !.hl = race.bufs[l.b].len]), offset, lastOffset)

\* tryGrowByReslice: n <= cap(b.buf)-l.
ReadFromTryCap(g) ==
    /\ race.pc[g] = "tryCap"
    /\ url' = url
    /\ LET l == race.loc[g]
       IN  Step(g, IF MinRead <= race.bufs[l.b].cap - l.hl
                   THEN Go(g, "tryStore", l)
                   ELSE Go(g, "growCap", [l EXCEPT !.hl = 0]),
                offset, lastOffset)

\* tryGrowByReslice: b.buf = b.buf[:l+n] stores the length, and grow returns
\* l.
ReadFromTryStore(g) ==
    /\ race.pc[g] = "tryStore"
    /\ url' = url
    /\ LET l == race.loc[g]
       IN  Step(g, Set(g, l.b, l.hl + MinRead, "cutCap", [l EXCEPT !.i = l.hl, !.hl = 0, !.m = 0]),
                offset, lastOffset)

\* grow: c := cap(b.buf); with n <= c/2 - m the bytes stay in the array,
\* otherwise growSlice makes a new one.  To stay, copy(b.buf, b.buf[b.off:])
\* loads the pointer and the length of b.buf, one word a step: b.off is 0,
\* as nothing reads from s.last but Bytes(), so that the copy is of the
\* bytes onto themselves and moves none, and neither word is used.
ReadFromGrowCap(g) ==
    /\ race.pc[g] \in {"growCap", "slide"}
    /\ url' = url
    /\ LET l == race.loc[g]
       IN  \E word \in IF race.pc[g] = "slide" THEN l.pend ELSE {"cap"} :
              Step(g, IF race.pc[g] = "slide"
                      THEN Loaded(g, "slide", "growSetCap", [l EXCEPT !.pend = @ \ {word}])
                      ELSE IF MinRead <= (race.bufs[l.b].cap \div 2) - l.m
                      THEN Go(g, "slide", [l EXCEPT !.pend = {"ptr", "len"}])
                      ELSE Go(g, "growSlice", [l EXCEPT !.pend = {"ptr", "len", "cap"}]),
                   offset, lastOffset)

\* grow: growSlice(b.buf[b.off:], b.off+n) loads the three words of b.buf.

ReadFromGrowSlicePtr(g) ==
    /\ race.pc[g] = "growSlice"
    /\ "ptr" \in race.loc[g].pend
    /\ url' = url
    /\ LET l == race.loc[g]
       IN  Step(g, Loaded(g, "growSlice", "growCopy",
                          [l EXCEPT !.hp = race.bufs[l.b].arr, !.pend = @ \ {"ptr"}]),
                offset, lastOffset)

ReadFromGrowSliceLen(g) ==
    /\ race.pc[g] = "growSlice"
    /\ "len" \in race.loc[g].pend
    /\ url' = url
    /\ LET l == race.loc[g]
       IN  Step(g, Loaded(g, "growSlice", "growCopy",
                          [l EXCEPT !.hl = race.bufs[l.b].len, !.pend = @ \ {"len"}]),
                offset, lastOffset)

ReadFromGrowSliceCap(g) ==
    /\ race.pc[g] = "growSlice"
    /\ "cap" \in race.loc[g].pend
    /\ url' = url
    /\ LET l == race.loc[g]
       IN  Step(g, Loaded(g, "growSlice", "growCopy",
                          [l EXCEPT !.hc = race.bufs[l.b].cap, !.pend = @ \ {"cap"}]),
                offset, lastOffset)

\* growSlice makes the new array, of zero bytes, and starts to copy the
\* bytes of the slice it was given into it.
ReadFromGrowCopy(g) ==
    /\ race.pc[g] = "growCopy"
    /\ url' = url
    /\ LET l == race.loc[g]
           new == Fresh(race)
           cap == GrownCap(l.hl, l.hc)
           r == Go(g, "growCopying", [l EXCEPT !.new = new, !.hc = cap, !.start = 0,
                                                !.cnt = l.hl])
       IN  Step(g, IF l.hl > ArrayOf(race, l.hp).cap THEN Undefined(g)
                   ELSE [r EXCEPT !.arrs[new] = [cap |-> cap, mem |-> <<>>]],
                offset, lastOffset)

\* growSlice: the copy ends, with every byte moved into the new array.
ReadFromGrowCopied(g) ==
    /\ race.pc[g] = "growCopying"
    /\ url' = url
    /\ LET l == race.loc[g]
           r == Go(g, "growStore", [l EXCEPT !.hp = 0, !.start = 0, !.cnt = 0, !.kept = {},
                                              !.pend = {"ptr", "len", "cap"}])
       IN  Step(g, [r EXCEPT !.arrs[l.new].mem = Trimmed([j \in 1..l.hl |-> Moved(l, j)])],
                offset, lastOffset)

\* grow: b.buf = growSlice(...) stores the three words of the new slice.
GrowStored(g, l) ==
    IF l.pend # {} THEN Go(g, "growStore", l)
    ELSE Go(g, "growSetCap", [l EXCEPT !.new = 0, !.hl = 0, !.hc = 0])

ReadFromGrowStorePtr(g) ==
    /\ race.pc[g] = "growStore"
    /\ "ptr" \in race.loc[g].pend
    /\ url' = url
    /\ LET l == race.loc[g]
       IN  Step(g, [GrowStored(g, [l EXCEPT !.pend = @ \ {"ptr"}]) EXCEPT !.bufs[l.b].arr = l.new],
                offset, lastOffset)

ReadFromGrowStoreLen(g) ==
    /\ race.pc[g] = "growStore"
    /\ "len" \in race.loc[g].pend
    /\ url' = url
    /\ LET l == race.loc[g]
       IN  Step(g, [GrowStored(g, [l EXCEPT !.pend = @ \ {"len"}]) EXCEPT !.bufs[l.b].len = l.hl],
                offset, lastOffset)

ReadFromGrowStoreCap(g) ==
    /\ race.pc[g] = "growStore"
    /\ "cap" \in race.loc[g].pend
    /\ url' = url
    /\ LET l == race.loc[g]
       IN  Step(g, [GrowStored(g, [l EXCEPT !.pend = @ \ {"cap"}]) EXCEPT !.bufs[l.b].cap = l.hc],
                offset, lastOffset)

\* grow: b.buf = b.buf[:m+n], the load of the capacity.
ReadFromGrowSetCap(g) ==
    /\ race.pc[g] = "growSetCap"
    /\ url' = url
    /\ LET l == race.loc[g]
       IN  Step(g, Checked(g, l.m + MinRead, "growSetLen", l), offset, lastOffset)

\* grow: b.buf = b.buf[:m+n], the store of the length; grow returns m.
ReadFromGrowSetLen(g) ==
    /\ race.pc[g] = "growSetLen"
    /\ url' = url
    /\ LET l == race.loc[g]
       IN  Step(g, Set(g, l.b, l.m + MinRead, "cutCap", [l EXCEPT !.i = l.m, !.m = 0]),
                offset, lastOffset)

\* ReadFrom: b.buf = b.buf[:i], the load of the capacity.
ReadFromCutCap(g) ==
    /\ race.pc[g] = "cutCap"
    /\ url' = url
    /\ LET l == race.loc[g]
       IN  Step(g, Checked(g, l.i, "cutLen", l), offset, lastOffset)

\* ReadFrom: b.buf = b.buf[:i], the store of the length.
ReadFromCutLen(g) ==
    /\ race.pc[g] = "cutLen"
    /\ url' = url
    /\ LET l == race.loc[g]
       IN  Step(g, Set(g, l.b, l.i, "slice", [l EXCEPT !.pend = {"ptr", "cap"}]), offset, lastOffset)

\* ReadFrom: b.buf[i:cap(b.buf)], the room the body is read into, loads the
\* pointer and the capacity; the slice expression panics with i past the
\* capacity.
SliceLoaded(g, l) ==
    IF l.pend # {} THEN Go(g, "slice", l)
    ELSE IF l.i > l.hc THEN Panic(g)
    ELSE Go(g, "bodyRead", l)

ReadFromSlicePtr(g) ==
    /\ race.pc[g] = "slice"
    /\ "ptr" \in race.loc[g].pend
    /\ url' = url
    /\ LET l == race.loc[g]
       IN  Step(g, SliceLoaded(g, [l EXCEPT !.hp = race.bufs[l.b].arr, !.pend = @ \ {"ptr"}]),
                offset, lastOffset)

ReadFromSliceCap(g) ==
    /\ race.pc[g] = "slice"
    /\ "cap" \in race.loc[g].pend
    /\ url' = url
    /\ LET l == race.loc[g]
       IN  Step(g, SliceLoaded(g, [l EXCEPT !.hc = race.bufs[l.b].cap, !.pend = @ \ {"cap"}]),
                offset, lastOffset)

\* ReadFrom: a Read of the body, which gives all the bytes left that fit the
\* room, to store them in the array after byte i, or reports the end of the
\* body.
ReadFromRead(g) ==
    /\ race.pc[g] = "bodyRead"
    /\ url' = url
    /\ LET l == race.loc[g]
           body == RangeBody(fmtRange(l.off, Max(MinFetch, race.op[g].len)))
           left == Len(body) - l.sent
           k == Min(left, l.hc - l.i)
       IN  Step(g, IF k = 0
                   THEN Go(g, "readCap", [l EXCEPT !.hp = 0, !.hc = 0, !.eof = (left = 0)])
                   ELSE IF l.i + k > ArrayOf(race, l.hp).cap THEN Undefined(g)
                   ELSE Go(g, "bodyStore", [l EXCEPT !.hc = 0, !.cnt = k, !.todo = 1..k]),
                offset, lastOffset)

\* Read stores one of the bytes it gives into the array; after the last,
\* Read returns their number.  When the other caller is copying out of the
\* array and the byte is one of the copy that it has not kept, the store of
\* another byte finds the copy past the place, and the copy keeps the old
\* byte, or before it.
ReadFromStore(g) ==
    /\ race.pc[g] = "bodyStore"
    /\ url' = url
    /\ LET l == race.loc[g]
           o == race.loc[Other(g)]
           body == RangeBody(fmtRange(l.off, Max(MinFetch, race.op[g].len)))
       IN  \E j \in l.todo :
              LET p == l.i + j
                  old == ByteAt(ArrayOf(race, l.hp), p)
                  copying == /\ race.pc[Other(g)] \in {"copying", "growCopying"}
                             /\ o.hp = l.hp
                             /\ p > o.start
                             /\ p <= o.start + o.cnt
                             /\ \A kv \in o.kept : kv[1] # p
                             /\ old # body[l.sent + j]
                  r == IF l.todo = {j}
                       THEN Go(g, "readCap", [l EXCEPT !.sent = l.sent + l.cnt, !.i = l.i + l.cnt,
                                                        !.hp = 0, !.cnt = 0, !.todo = {}])
                       ELSE Go(g, "bodyStore", [l EXCEPT !.todo = @ \ {j}])
              IN  \E passed \in IF copying THEN BOOLEAN ELSE {FALSE} :
                     Step(g, [r EXCEPT !.arrs[l.hp] = Written(@, p - 1, <<body[l.sent + j]>>),
                                       !.loc[Other(g)].kept =
                                            IF passed THEN @ \cup {<<p, old>>} ELSE @],
                          offset, lastOffset)

\* ReadFrom: b.buf = b.buf[:i+m], the load of the capacity.
ReadFromReadCap(g) ==
    /\ race.pc[g] = "readCap"
    /\ url' = url
    /\ LET l == race.loc[g]
       IN  Step(g, Checked(g, l.i, "readLen", l), offset, lastOffset)

\* ReadFrom: b.buf = b.buf[:i+m], the store of the length; at the end of the
\* body ReadFrom returns, otherwise it grows the buffer again.
ReadFromReadLen(g) ==
    /\ race.pc[g] = "readLen"
    /\ url' = url
    /\ LET l == race.loc[g]
       IN  Step(g, IF l.eof THEN Set(g, l.b, l.i, "storeOffset", Carried(l))
                   ELSE Set(g, l.b, l.i, "growLen", [l EXCEPT !.i = 0]),
                offset, lastOffset)

\* ReadAt: s.lastOffset = off.
ReadAtStoreOffset(g) ==
    /\ race.pc[g] = "storeOffset"
    /\ url' = url
    /\ Step(g, Go(g, Pause, Carried(race.loc[g])), offset, race.loc[g].off)

\* ReadAt, line 171: s.last is loaded for s.last.Len().
ReadAtTestLenLast(g) ==
    /\ race.pc[g] = Pause
    /\ url' = url
    /\ Step(g, Go(g, "testLenLen", [race.loc[g] EXCEPT !.b = race.ptr]), offset, lastOffset)

\* ReadAt, line 171: s.last.Len() < len(buf).
ReadAtTestLen(g) ==
    /\ race.pc[g] = "testLenLen"
    /\ url' = url
    /\ LET l == race.loc[g]
       IN  Step(g, IF race.bufs[l.b].len < race.op[g].len
                   THEN Go(g, "shortLast", Carried(l))
                   ELSE Go(g, "full", [Carried(l) EXCEPT !.pend = {"last", "ptr", "len"}]),
                offset, lastOffset)

\* ReadAt, line 172: s.last is loaded for n = s.last.Len().
ReadAtShortLast(g) ==
    /\ race.pc[g] = "shortLast"
    /\ url' = url
    /\ Step(g, Go(g, "shortLen", [race.loc[g] EXCEPT !.b = race.ptr]), offset, lastOffset)

\* ReadAt, line 172: n = s.last.Len().
ReadAtShortLen(g) ==
    /\ race.pc[g] = "shortLen"
    /\ url' = url
    /\ LET l == race.loc[g]
       IN  Step(g, Go(g, "short", [Carried(l) EXCEPT !.n = race.bufs[l.b].len,
                                                     !.pend = {"last", "ptr", "cap"}]),
                offset, lastOffset)

\* ReadAt, line 173: copy(buf, s.last.Bytes()[0:n]) loads s.last, then the
\* pointer and the capacity of b.buf.

ReadAtShortCopyLast(g) ==
    /\ race.pc[g] = "short"
    /\ "last" \in race.loc[g].pend
    /\ url' = url
    /\ Step(g, Loaded(g, "short", "shortCopy",
                      [race.loc[g] EXCEPT !.b = race.ptr, !.pend = @ \ {"last"}]),
            offset, lastOffset)

ReadAtShortCopyPtr(g) ==
    /\ race.pc[g] = "short"
    /\ race.loc[g].pend \cap {"last", "ptr"} = {"ptr"}
    /\ url' = url
    /\ LET l == race.loc[g]
       IN  Step(g, Loaded(g, "short", "shortCopy",
                          [l EXCEPT !.hp = race.bufs[l.b].arr, !.pend = @ \ {"ptr"}]),
                offset, lastOffset)

ReadAtShortCopyCap(g) ==
    /\ race.pc[g] = "short"
    /\ race.loc[g].pend \cap {"last", "cap"} = {"cap"}
    /\ url' = url
    /\ LET l == race.loc[g]
       IN  Step(g, Loaded(g, "short", "shortCopy",
                          [l EXCEPT !.hc = race.bufs[l.b].cap, !.pend = @ \ {"cap"}]),
                offset, lastOffset)

\* ReadAt, line 173: the slice expression panics with n past the capacity;
\* then the copy of the bytes starts.
ReadAtShortCopy(g) ==
    /\ race.pc[g] = "shortCopy"
    /\ url' = url
    /\ LET l == race.loc[g]
       IN  Step(g, IF l.n > l.hc THEN Panic(g)
                   ELSE CopiedOut(g, l.n, 0, Min(l.n, race.op[g].len)),
                offset, lastOffset)

\* ReadAt, line 176: copy(buf, s.last.Bytes()) loads s.last, then the
\* pointer and the length of b.buf.

ReadAtFullCopyLast(g) ==
    /\ race.pc[g] = "full"
    /\ "last" \in race.loc[g].pend
    /\ url' = url
    /\ Step(g, Loaded(g, "full", "fullCopy",
                      [race.loc[g] EXCEPT !.b = race.ptr, !.pend = @ \ {"last"}]),
            offset, lastOffset)

ReadAtFullCopyPtr(g) ==
    /\ race.pc[g] = "full"
    /\ race.loc[g].pend \cap {"last", "ptr"} = {"ptr"}
    /\ url' = url
    /\ LET l == race.loc[g]
       IN  Step(g, Loaded(g, "full", "fullCopy",
                          [l EXCEPT !.hp = race.bufs[l.b].arr, !.pend = @ \ {"ptr"}]),
                offset, lastOffset)

ReadAtFullCopyLen(g) ==
    /\ race.pc[g] = "full"
    /\ race.loc[g].pend \cap {"last", "len"} = {"len"}
    /\ url' = url
    /\ LET l == race.loc[g]
       IN  Step(g, Loaded(g, "full", "fullCopy",
                          [l EXCEPT !.hl = race.bufs[l.b].len, !.pend = @ \ {"len"}]),
                offset, lastOffset)

\* ReadAt returns the bytes its own GET was answered with, not those of
\* s.last.
ReadAtFullCopy_OwnBytes(g) ==
    /\ race.pc[g] = "fullCopy"
    /\ url' = url
    /\ LET l == race.loc[g]
           len == race.op[g].len
           body == RangeBody(fmtRange(l.off, Max(MinFetch, len)))
       IN  Step(g, Return(g, len, "nil",
                          [j \in 1..len |-> IF j <= Len(body) THEN body[j] ELSE Untouched]),
                offset, lastOffset)

\* ReadAt, line 176: n = len(buf), and the copy of the bytes of s.last
\* starts.
ReadAtFullCopy(g) ==
    /\ race.pc[g] = "fullCopy"
    /\ url' = url
    /\ LET l == race.loc[g]
           len == race.op[g].len
       IN  Step(g, CopiedOut(g, len, 0, Min(len, l.hl)), offset, lastOffset)

\* ReadAt, lines 100, 173 and 176: the copy into buf ends, and ReadAt returns
\* n and nil.
ReadAtCopied(g) ==
    /\ race.pc[g] = "copying"
    /\ url' = url
    /\ LET l == race.loc[g]
       IN  Step(g, Return(g, l.n, "nil", Copied(l, Min(l.n, race.op[g].len))), offset, lastOffset)

\* Read, after ReadAt returned nil: s.offset += int64(n), the load.
ReadLoad(g) ==
    /\ race.pc[g] = "return"
    /\ url' = url
    /\ Step(g, Go(g, "store", [race.loc[g] EXCEPT !.cur = offset]), offset, lastOffset)

\* Read stores the cursor it loaded, advanced by n.
ReadStore(g) ==
    /\ race.pc[g] = "store"
    /\ url' = url
    /\ Step(g, Go(g, "done", [race.loc[g] EXCEPT !.cur = 0]),
            race.loc[g].cur + race.loc[g].n, lastOffset)

NextRace ==
    \E g \in Callers :
        \/ SeekSet(g)
        \/ SeekLoad(g)
        \/ SeekStore(g)
        \/ SeekReturn(g)
        \/ NewReqTest(g)
        \/ NewReqParse(g)
        \/ SizeReturn(g)
        \/ ReadArg(g)
        \/ ReadAtTestLast(g)
        \/ ReadAtTestOffset(g)
        \/ ReadAtEndOffset(g)
        \/ ReadAtEndLast(g)
        \/ ReadAtEndLen(g)
        \/ ReadAtHitStart(g)
        \/ ReadAtHitOffset(g)
        \/ ReadAtHitLast(g)
        \/ ReadAtHitPtr(g)
        \/ ReadAtHitCap(g)
        \/ ReadAtHitCopy(g)
        \/ ReadAtTestNil(g)
        \/ ReadAtMake(g)
        \/ ReadAtResetLast(g)
        \/ ReadAtReset(g)
        \/ ReadFromEnter(g)
        \/ ReadFromGrowLen(g)
        \/ ReadFromTryLen(g)
        \/ ReadFromTryCap(g)
        \/ ReadFromTryStore(g)
        \/ ReadFromGrowCap(g)
        \/ ReadFromGrowSlicePtr(g)
        \/ ReadFromGrowSliceLen(g)
        \/ ReadFromGrowSliceCap(g)
        \/ ReadFromGrowCopy(g)
        \/ ReadFromGrowCopied(g)
        \/ ReadFromGrowStorePtr(g)
        \/ ReadFromGrowStoreLen(g)
        \/ ReadFromGrowStoreCap(g)
        \/ ReadFromGrowSetCap(g)
        \/ ReadFromGrowSetLen(g)
        \/ ReadFromCutCap(g)
        \/ ReadFromCutLen(g)
        \/ ReadFromSlicePtr(g)
        \/ ReadFromSliceCap(g)
        \/ ReadFromRead(g)
        \/ ReadFromStore(g)
        \/ ReadFromReadCap(g)
        \/ ReadFromReadLen(g)
        \/ ReadAtStoreOffset(g)
        \/ ReadAtTestLenLast(g)
        \/ ReadAtTestLen(g)
        \/ ReadAtShortLast(g)
        \/ ReadAtShortLen(g)
        \/ ReadAtShortCopyLast(g)
        \/ ReadAtShortCopyPtr(g)
        \/ ReadAtShortCopyCap(g)
        \/ ReadAtShortCopy(g)
        \/ ReadAtFullCopyLast(g)
        \/ ReadAtFullCopyPtr(g)
        \/ ReadAtFullCopyLen(g)
        \/ ReadAtFullCopy(g)
        \/ ReadAtCopied(g)
        \/ ReadLoad(g)
        \/ ReadStore(g)

\* Every interleaving of the steps of the two calls.
SpecRace == InitRace /\ [][NextRace]_vars

\* The pairing after those shown.
Following(shown) ==
    IF Len(shown) < Len(PairNames) THEN PairNames[Len(shown) + 1] ELSE "other"

\* Under the scheduler "pause": the two calls of a pairing ended out of
\* order, and the program goes on with two calls of the next pairing, or of
\* no pairing after the last, on another reader.
NextPair ==
    /\ race.sched = "pause"
    /\ Len(race.shown) < Len(PairNames)
    /\ EndedOutOfOrder
    /\ race.op[1].kind = "ReadAt" => \E g \in Callers : race.loc[g].missed
    /\ \E sc \in Scenarios(Following(Append(race.shown, Following(race.shown)))) :
            race' = RaceStart(sc.warm, sc.a, sc.b, "pause",
                              Append(race.shown, Following(race.shown)))
    /\ url' = race'.s0.url
    /\ offset' = race'.s0.offset
    /\ last' = race'.s0.last
    /\ lastOffset' = race'.s0.lastOffset
    /\ UNCHANGED <<resource, URL, ret, chunk, out, numReq, tally>>

NextPaused == NextRace \/ NextPair

\* One schedule of the two calls, for one pairing after the other.  No step
\* of a call waits for the other caller, and the transport answers: a
\* caller the scheduler runs takes its next step, and the calls return.
SpecPaused == InitPaused /\ [][NextPaused]_vars /\ WF_vars(NextPaused)

\* ------------------------------------------------------------- claims
\* The reader's fields a call may change, besides the parsed URL.
state == <<offset, last, lastOffset>>

\* The cached span [cStart, cStart+Len(c)) covers [off, off+len), either
\* boundary included.
Covers(c, cStart, off, len) == cStart <= off /\ off + len <= cStart + Len(c)

\* The GET of call c was answered 200 or 206 and its body read to the end.
GetSucceeded(c) ==
    /\ c.gets = 1
    /\ ~c.t.doErr
    /\ ~Response(c.range, c.t).panics
    /\ c.t.status \in {StatusOK, StatusPartialContent}
    /\ ~c.t.bodyErr

\* The request of call c got a response: Do returned one.
GotResponse(c) == c.gets >= 1 /\ ~c.t.doErr /\ ~Response(c.range, c.t).panics

\* The body the GET of call c was answered with.
Delivered(c) == Response(c.range, c.t).body

\* The resource's bytes at [from, from+k), when it has them.
HoldsResourceAt(bytes, from) ==
    /\ from + Len(bytes) <= Len(resource)
    /\ bytes = Slice(resource, from, from + Len(bytes))

\* C1: a ReadAt with offset >= 0 whose span the cache (holding bytes) fully
\* covers, cacheStart <= offset included, sends no request and returns
\* count = length, no error and the cache's bytes at the span.
C1_CoveredReadIsServedFromCache ==
    [][ ( /\ ret'.op = "ReadAt"
          /\ ret'.off >= 0
          /\ last.present
          /\ Len(last.buf) > 0
          /\ Covers(last.buf, lastOffset, ret'.off, ret'.len) )
        => ( /\ ret'.gets = 0
             /\ ret'.heads = 0
             /\ ret'.n = ret'.len
             /\ ret'.err = "nil"
             /\ ret'.data = Slice(last.buf, ret'.off - lastOffset,
                                  (ret'.off + ret'.len) - lastOffset) ) ]_vars

\* C2: what a ReadAt with offset >= 0 that the cache does not fully cover does:
\* one GET with Range bytes=off-(off+wanted-1), wanted = max(len, 1 MiB); and
\* after a successful GET the cache is the response body and cacheStart = off.
MissFetchesOnce ==
    /\ ret'.gets = 1
    /\ ret'.heads = 0
    /\ ret'.range = [unit |-> "bytes", from |-> ret'.off,
                     to |-> ret'.off + Max(ret'.len, MinFetch) - 1]
    /\ GetSucceeded(ret') =>
            /\ last'.present
            /\ last'.buf = Delivered(ret')
            /\ lastOffset' = ret'.off

NotCovered ==
    /\ ret'.op = "ReadAt"
    /\ ret'.off >= 0
    /\ ~(last.present /\ Covers(last.buf, lastOffset, ret'.off, ret'.len))

\* C2 as claimed: every such ReadAt sends exactly one GET.
C2_EveryMissFetchesOnce ==
    [][ NotCovered => MissFetchesOnce ]_vars

\* C2 as amended: every such ReadAt on a reader whose URL parses sends exactly
\* one GET, with that Range, and a successful GET replaces the cache by the
\* response body with cacheStart = off; when the URL does not parse, ReadAt
\* returns 0 with the parse error and sends nothing.
C2_MissFetchesOnceWhenURLParses ==
    [][ NotCovered =>
            /\ URL = "good" => MissFetchesOnce
            /\ URL = "bad" => ( /\ ret'.gets = 0
                                /\ ret'.n = 0
                                /\ ret'.err = "parse"
                                /\ UNCHANGED state ) ]_vars

\* C2's case: a successful fetch at an offset past 0 has filled the cache.
C2_Witness ==
    /\ ret.op = "ReadAt"
    /\ ret.off > 0
    /\ GetSucceeded(ret)
    /\ Len(last.buf) > 0

\* C3: whenever the cache holds bytes they are the resource's bytes at
\* [cacheStart, cacheStart+k), whatever fetches failed before; and so a read
\* served from the cache returns the resource's bytes at its offset.
C3_CacheHoldsResourceBytes ==
    /\ (last.present /\ Len(last.buf) > 0) => HoldsResourceAt(last.buf, lastOffset)
    /\ ( /\ ret.op \in {"ReadAt", "Read"}
         /\ ret.off >= 0
         /\ ret.gets = 0
         /\ ret.err = "nil"
         /\ ret.n > 0 ) => HoldsResourceAt(ret.data, ret.off)

\* C4: ReadAt with a negative offset returns (0, io.EOF), sends no request
\* and leaves cursor, cache and cacheStart as they were.
C4_NegativeOffsetIsEOF ==
    [][ (ret'.op = "ReadAt" /\ ret'.off < 0)
        => ( /\ ret'.n = 0
             /\ ret'.err = "EOF"
             /\ ret'.gets = 0
             /\ ret'.heads = 0
             /\ UNCHANGED state ) ]_vars

\* C4's case: a negative-offset ReadAt on a reader with a filled cache and a
\* moved cursor.
C4_Witness ==
    /\ ret.op = "ReadAt"
    /\ ret.off < 0
    /\ ret.len > 0
    /\ Len(last.buf) > 0
    /\ offset # 0

\* C5: Read reads at the cursor it starts with; the cursor afterwards is the
\* old cursor + n when Read returns no error, and the old cursor when it
\* returns an error of any kind.
C5_ReadAdvancesCursorOnSuccessOnly ==
    [][ ret'.op = "Read"
        => ( /\ ret'.gets = 1 => ret'.range.from = offset
             /\ ret'.err = "nil" => offset' = offset + ret'.n
             /\ ret'.err # "nil" => offset' = offset
             /\ (ret'.err = "nil" /\ ret'.n > 0 /\ offset >= 0)
                    => ret'.data = SubSeq(IF ret'.gets = 1 THEN last'.buf ELSE last.buf,
                                          IF ret'.gets = 1 THEN 1 ELSE offset - lastOffset + 1,
                                          IF ret'.gets = 1 THEN ret'.n
                                          ELSE offset - lastOffset + ret'.n) ) ]_vars

\* C5's case: a Read past the first has returned bytes and advanced the cursor.
C5_Witness ==
    /\ ret.op = "Read"
    /\ ret.off > 0
    /\ ret.err = "nil"
    /\ ret.n > 0
    /\ offset = ret.off + ret.n

\* C6: reading N bytes from cursor 0 in chunks of a size dividing N returns
\* the resource's bytes in order, every Read without error, and the cursor is
\* at the end of what was read; the Reads after the end return 0 bytes without
\* error and leave the cursor at N.
C6_ChunkedReadReturnsResource ==
    LET full == Len(resource) \div chunk
    IN  /\ \A i \in 1..Len(out) :
              out[i] = IF i <= full THEN Slice(resource, (i - 1) * chunk, i * chunk)
                       ELSE <<>>
        /\ offset = Min(Len(out), full) * chunk
        /\ Len(out) > 0 => ( /\ ret.op = "Read"
                             /\ ret.err = "nil"
                             /\ ret.n = Len(out[Len(out)])
                             /\ ret.data = out[Len(out)] )

\* C6's case: at least two full chunks were read and one Read made after the end.
C6_Witness ==
    /\ Len(resource) >= 2 * chunk
    /\ Len(out) = (Len(resource) \div chunk) + 1
    /\ offset = Len(resource)
    /\ ret.n = 0
    /\ ret.err = "nil"

\* C7: a failing Seek changes nothing and sends nothing: end-relative fails
\* with "not implemented" for every delta, any mode other than the three
\* fails with os.ErrInvalid.
C7_FailingSeekChangesNothing ==
    [][ ret'.op = "Seek"
        => ( /\ ret'.whence = SeekEnd => ret'.err = "notimpl"
             /\ ret'.whence \notin {SeekStart, SeekCurrent, SeekEnd}
                    => ret'.err = "ErrInvalid"
             /\ ret'.err # "nil" => ( /\ ret'.n = 0
                                      /\ ret'.gets = 0
                                      /\ ret'.heads = 0
                                      /\ UNCHANGED state ) ) ]_vars

\* C7's case: an end-relative Seek has failed on a reader with a moved cursor
\* and a filled cache.
C7_Witness ==
    /\ ret.op = "Seek"
    /\ ret.whence = SeekEnd
    /\ ret.off # 0
    /\ ret.err = "notimpl"
    /\ offset # 0
    /\ Len(last.buf) > 0

\* C8: absolute Seek sets cursor = delta, relative Seek sets cursor = cursor +
\* delta, whatever the result; it returns the new cursor and no error, sends
\* nothing and leaves the cache alone.  A Read at a negative cursor returns
\* (0, io.EOF) and leaves the cursor.
C8_SeekSetsCursorUnchecked ==
    [][ /\ (ret'.op = "Seek" /\ ret'.whence \in {SeekStart, SeekCurrent})
            => ( /\ offset' = IF ret'.whence = SeekStart THEN ret'.off
                              ELSE offset + ret'.off
                 /\ ret'.n = offset'
                 /\ ret'.err = "nil"
                 /\ ret'.gets = 0
                 /\ ret'.heads = 0
                 /\ UNCHANGED <<last, lastOffset>> )
        /\ (ret'.op = "Read" /\ offset < 0)
            => ( /\ ret'.n = 0
                 /\ ret'.err = "EOF"
                 /\ offset' = offset ) ]_vars

\* C8's case: the cursor was moved below 0 by Seek and a Read has reported it.
C8_Witness ==
    /\ ret.op = "Read"
    /\ ret.off < 0
    /\ ret.err = "EOF"
    /\ offset < 0
    /\ Len(last.buf) > 0

\* C9: ReadAt leaves the cursor where it was, whatever its outcome.
C9_ReadAtKeepsCursor ==
    [][ ret'.op = "ReadAt" => offset' = offset ]_vars

\* C9's case: a ReadAt has fetched and returned bytes, ending elsewhere than
\* the cursor.
C9_Witness ==
    /\ ret.op = "ReadAt"
    /\ ret.gets = 1
    /\ ret.n > 0
    /\ offset # ret.off + ret.n

\* C10: what Size returns for what the HEAD response was, and that it changes
\* neither cursor nor cache.
SizeReturns ==
    /\ ret'.heads = 1
    /\ ret'.t.doErr => (ret'.n = 0 /\ ret'.err = "transport")
    /\ (~ret'.t.doErr /\ ret'.t.contentLength < 0)
            => (ret'.err # "nil" /\ ret'.err = "nolength")
    /\ (~ret'.t.doErr /\ ret'.t.contentLength >= 0)
            => (ret'.n = ret'.t.contentLength /\ ret'.err = "nil")

\* C10 as claimed: every Size sends exactly one HEAD.
C10_SizeSendsOneHead ==
    [][ ret'.op = "Size"
        => (SizeReturns /\ ret'.gets = 0 /\ UNCHANGED state) ]_vars

\* C10 as amended: Size on a reader whose URL parses sends exactly one HEAD
\* and returns the transport's error, an error when no content length is
\* reported, else the content length; when the URL does not parse it returns
\* the parse error and sends nothing.  It never changes cursor or cache.
C10_SizeSendsOneHeadWhenURLParses ==
    [][ ret'.op = "Size"
        => ( /\ URL = "good" => SizeReturns
             /\ URL = "bad" => (ret'.heads = 0 /\ ret'.n = 0 /\ ret'.err = "parse")
             /\ ret'.gets = 0
             /\ UNCHANGED state ) ]_vars

\* C10's case: Size got a response without content length, on a reader with
\* a filled cache.
C10_Witness ==
    /\ ret.op = "Size"
    /\ ret.heads = 1
    /\ ret.t.contentLength < 0
    /\ ret.err = "nolength"
    /\ Len(last.buf) > 0

\* C11: on a miss that got a response, status 200 or 206 is read as a
\* success (the body becomes the cache and its first bytes are returned),
\* and any other status gives (0, io.EOF) after that one request.
C11_StatusPolicy ==
    (ret.op \in {"ReadAt", "Read"} /\ GotResponse(ret))
    => /\ ret.gets = 1
       /\ ret.t.status \notin {StatusOK, StatusPartialContent}
            => (ret.n = 0 /\ ret.err = "EOF")
       /\ (ret.t.status \in {StatusOK, StatusPartialContent} /\ ~ret.t.bodyErr)
            => ( /\ ret.err \in {"nil", "close"}
                 /\ ret.err = "close" => ret.t.closeErr
                 /\ last.buf = Delivered(ret)
                 /\ lastOffset = ret.off
                 /\ ret.n = Min(ret.len, Len(last.buf))
                 /\ ret.data = Slice(last.buf, 0, ret.n) )

\* C11's case: a miss answered 200 has returned bytes.
C11_Witness ==
    /\ ret.op = "ReadAt"
    /\ ret.gets = 1
    /\ ret.t.status = StatusOK
    /\ ret.err = "nil"
    /\ ret.n > 0

\* C12 as claimed: a ReadAt or Read that returns io.EOF returns a count
\* strictly less than len(buf), for every buffer length, 0 included.
C12_EOFOnlyWhenShort ==
    (ret.op \in {"ReadAt", "Read"} /\ ret.err = "EOF") => ret.n < ret.len

\* C12 as amended: a ReadAt or Read that returns io.EOF returns count 0, so
\* strictly less than len(buf) for every non-empty buffer; with an empty
\* buffer io.EOF comes with the count 0 = len(buf).
C12_EOFComesWithCountZero ==
    (ret.op \in {"ReadAt", "Read"} /\ ret.err = "EOF")
    => /\ ret.n = 0
       /\ ret.len > 0 => ret.n < ret.len

\* C12's case: a non-empty read was answered by a status other than 200/206.
C12_Witness ==
    /\ ret.op \in {"ReadAt", "Read"}
    /\ ret.err = "EOF"
    /\ ret.len > 0
    /\ ret.gets = 1

\* C13: after a ReadAt (or Read) whose request got a response, the
\* response body is closed, whatever the status and the body read did; no
\* ReadAt leaves a body open.
C13_BodyClosed ==
    ret.op \in {"ReadAt", "Read"}
    => /\ ret.body # "open"
       /\ GotResponse(ret) => ret.body = "closed"

\* C13's case: a response with a status other than 200/206 was received.
C13_Witness ==
    /\ ret.op = "ReadAt"
    /\ ret.gets = 1
    /\ ret.t.status = StatusNotFound
    /\ ret.body = "closed"

\* C14: a call whose request the transport failed returns 0 and that error
\* after exactly one request; no call sends more than one request, ReadAt
\* and Read only GETs, Size only a HEAD.
C14_NoRetries ==
    /\ ret.gets + ret.heads <= 1
    /\ ret.op \in {"ReadAt", "Read"} => ret.heads = 0
    /\ ret.op = "Size" => ret.gets = 0
    /\ ret.t.doErr => ( /\ ret.op \in {"ReadAt", "Read", "Size"}
                        /\ ret.gets + ret.heads = 1
                        /\ ret.n = 0
                        /\ ret.err = "transport" )

\* C14's case: the transport failed the HEAD of a Size.
C14_Witness ==
    /\ ret.op = "Size"
    /\ ret.t.doErr
    /\ ret.heads = 1
    /\ ret.err = "transport"

\* C15 as claimed: over any sequence of ReadAt calls the GETs issued are as
\* many as the calls that were cache misses at an offset >= 0.
C15_GetsEqualMisses ==
    numReq = tally.misses

\* C15 as amended: on a reader whose URL parses the GETs issued over a
\* sequence of ReadAt calls are as many as the calls that were cache misses
\* at an offset >= 0 (so a read at offset 0 followed by a read inside the
\* fetched span costs one GET); when the URL does not parse no GET is issued.
C15_GetsEqualMissesWhenURLParses ==
    /\ URL = "good" => numReq = tally.misses
    /\ URL = "bad" => numReq = 0

\* C15's case: a read at offset 0 fetched, and a second read after it, inside
\* the fetched span, was served without a second GET.
C15_Witness ==
    /\ tally.calls = 2
    /\ numReq = 1
    /\ ret.op = "ReadAt"
    /\ ret.off > 0
    /\ ret.len > 0
    /\ ret.gets = 0
    /\ ret.n = ret.len
    /\ lastOffset = 0

\* The step is a ReadAt call identical to the call before it.
SameCallAgain ==
    /\ ret.op = "ReadAt"
    /\ ret'.op = "ReadAt"
    /\ ret'.len = ret.len
    /\ ret'.off = ret.off

\* A ReadAt at the cache's start issues one GET, whatever the cache holds.
ReadAtCacheStartFetches ==
    (last.present /\ ret'.op = "ReadAt" /\ ret'.off = lastOffset) => ret'.gets = 1

\* A ReadAt served by the cache started strictly after the cache's start.
HitsStartAfterCacheStart ==
    (ret'.op = "ReadAt" /\ ret'.gets = 0 /\ ret'.err = "nil")
        => (last.present /\ ret'.off > lastOffset)

\* C17 as claimed: a ReadAt at offset = cacheStart issues one GET, only
\* offsets after cacheStart are served by the cache, and any two consecutive
\* identical ReadAt calls issue two GETs.
C17_IdenticalCallsIssueTwoGets ==
    [][/\ ReadAtCacheStartFetches
       /\ HitsStartAfterCacheStart
       /\ SameCallAgain => ret.gets + ret'.gets = 2]_vars

\* C17 as amended: with a cache, a ReadAt at offset = cacheStart issues one
\* GET; only offsets after cacheStart are served by the cache; and a ReadAt
\* identical to the one before it, whose GET succeeded, issues a GET again.
C17_CacheStartIsAMiss ==
    [][/\ ReadAtCacheStartFetches
       /\ HitsStartAfterCacheStart
       /\ (SameCallAgain /\ GetSucceeded(ret)) => ret.gets + ret'.gets = 2]_vars

\* C17's case: the second of two calls read at the offset the first had
\* fetched at, a span the cache held whole, and was answered by a second GET.
C17_Witness ==
    /\ tally.calls = 2
    /\ tally.atStart = 1
    /\ numReq = 2
    /\ ret.op = "ReadAt"
    /\ ret.len > 0
    /\ ret.n = ret.len
    /\ ret.off = lastOffset
    /\ GetSucceeded(ret)

\* C18: when the GET of a miss succeeds and its body is shorter than the
\* buffer (empty included), ReadAt returns the body's length as count, the
\* body as bytes and no error, not end-of-data (the error of a failing Close
\* is all it can return); the cache is then the body, starting at the offset.
C18_ShortReadHasNoError ==
    (ret.op = "ReadAt" /\ GetSucceeded(ret) /\ Len(Delivered(ret)) < ret.len)
        => /\ ret.n = Len(Delivered(ret))
           /\ ret.data = Delivered(ret)
           /\ ret.err = IF ret.t.closeErr THEN "close" ELSE "nil"
           /\ last = [present |-> TRUE, buf |-> Delivered(ret)]
           /\ lastOffset = ret.off

\* C18's case: a miss was answered with a body of one byte for a buffer of
\* two, and ReadAt returned that byte without error.
C18_Witness ==
    /\ ret.op = "ReadAt"
    /\ GetSucceeded(ret)
    /\ ~ret.t.closeErr
    /\ ret.len = 2
    /\ Len(Delivered(ret)) = 1
    /\ ret.n = 1
    /\ ret.err = "nil"

\* The last call read at an offset >= 0.
ReadAtOffset == ret.op \in {"ReadAt", "Read"} /\ ret.off >= 0

\* The count and the bytes a read of the resource itself gives.
ReturnsResourceBytes ==
    /\ ret.n = Min(ret.len, Max(0, Len(resource) - ret.off))
    /\ ret.n > 0 => ret.data = Slice(resource, ret.off, ret.off + ret.n)
    /\ ret.n = 0 => ret.data = <<>>

\* The count and the bytes the uncached reader returns for the same call.
ReturnsWhatUncachedReturns ==
    /\ ret.n = UncachedReadAt(ret.len, ret.off).n
    /\ ret.data = UncachedReadAt(ret.len, ret.off).data

\* C19 as claimed: with a failure-free transport that honours ranges, every
\* read at an offset >= 0, in any sequence of ReadAt, Read and Seek calls,
\* returns count min(length, max(0, S - offset)) and the resource's bytes at
\* the offset, from the cache or from a fetch.
C19_ReadsReturnResourceBytes ==
    ReadAtOffset => ReturnsResourceBytes

\* C19 as amended: with a failure-free transport that honours ranges, every
\* read at an offset >= 0 returns the count and bytes the uncached reader
\* returns; on a reader whose URL parses these are min(length, max(0, S -
\* offset)) bytes of the resource at the offset, from the cache or from a
\* fetch, and on one whose URL does not parse, count 0, the parse error and
\* no GET.
C19_ReadsReturnResourceBytesWhenURLParses ==
    ReadAtOffset =>
        /\ ReturnsWhatUncachedReturns
        /\ URL = "good" => ReturnsResourceBytes
        /\ URL = "bad" => (ret.n = 0 /\ ret.err = "parse" /\ ret.gets = 0)

\* C19's case: after a fetch and a Seek, a Read was served from the cache
\* and returned the resource's byte at the cursor.
C19_Witness ==
    /\ ret.op = "Read"
    /\ ret.off > 0
    /\ ret.gets = 0
    /\ ret.len > 0
    /\ ret.n = ret.len
    /\ ret.data = Slice(resource, ret.off, ret.off + ret.n)
    /\ offset = ret.off + ret.n

\* C16: the reader is not safe for concurrent use.  For each pairing the
\* claim names (Read with Read, Seek with Read, two ReadAt calls of which
\* one misses: here two at different offsets, the one at the larger offset
\* missing), whatever the reader (new, or with a fetch behind it) and the
\* calls of the pairing, there is an interleaving that ends out of order:
\* the one in which caller 2 is held after "s.lastOffset = off" while caller
\* 1 runs its call.  Both calls return, and what they return with the cursor
\* they leave is the outcome of neither sequential order.  A run that tries
\* the pairings one after the other comes to have shown them all.
C16_EachPairingEndsOutOfOrder == <>(race.shown = PairNames)

\* C16's case: in a run in which Read with Read and Seek with Read have
\* ended out of order, two ReadAt calls at different offsets have returned
\* without a panic; the second missed, fetched its bytes, and returned a
\* full count with no error and the bytes at the first call's offset, which
\* are not the resource's bytes at its own: the first call refilled the
\* cache in between.
C16_Witness ==
    /\ race.shown = <<PairNames[1], PairNames[2]>>
    /\ EndedOutOfOrder
    /\ race.op[1].kind = "ReadAt"
    /\ race.op[2].kind = "ReadAt"
    /\ race.op[2].off + race.op[2].len <= Len(resource)
    /\ race.loc[2].missed
    /\ race.loc[2].err = "nil"
    /\ race.loc[2].n = race.op[2].len
    /\ race.loc[2].data = Slice(resource, race.op[1].off, race.op[1].off + race.op[1].len)
    /\ race.loc[2].data # Slice(resource, race.op[2].off, race.op[2].off + race.op[2].len)

====
